---------------------------- MODULE Spec2Model ----------------------------
(***************************************************************************)
(* A model of the quantac retrieval pipeline: the query analyzers, the     *)
(* retriever and the answer composer of rag_answer.py, the rendering of    *)
(* source cards in app.py, the section extraction and the sentence chunker *)
(* of ingest_mda.py, the sheet parser, the date labels, the number          *)
(* formatting and the chunk generators of ingest_excel.py, and the index   *)
(* build of build_vectorstore.py.                                          *)
(*                                                                         *)
(* Text is modelled as a sequence of one-character strings, so that        *)
(* lower-casing, substring tests and word splitting are computed the way   *)
(* Python computes them.  None is the value None below, which is no text.  *)
(***************************************************************************)
EXTENDS Integers, Sequences, FiniteSets, TLC

VARIABLES
    aquery,      \* analyzers: the query string handed to the three analyzers
    aintent,     \* analyzers: what detect_intent returned, or Pending
    ayear,       \* analyzers: what extract_year returned, or Pending
    acompany,    \* analyzers: what extract_company returned, or Pending
    pc,          \* pipeline: where the current call stands
    req,         \* pipeline: the arguments of the current call
    ctx,         \* pipeline: what retrieve_context computed
    result,      \* pipeline: what retrieve_and_answer / process_query returned
    gen_calls,   \* pipeline: generation calls issued during the current call
    cards,       \* pipeline: the source cards show_main_app rendered
    vs,          \* pipeline: the index load_vectorstore returned to the caller
    query_count, \* pipeline: the queries the session has submitted
    sentences,   \* chunker: the sentences split_into_sentences gave for a section
    text_chunks, \* chunker: what chunk_text_by_sentences returned
    chunks_out,  \* chunker: what chunk_sections emitted
    files,       \* build: what each manifest entry's source file holds
    saved_index, \* build: what VECTORSTORE_DIR holds
    bpc,         \* build: where build_vectorstore stands
    entry,       \* build: the manifest entry the loops have reached
    vectorstore_local, \* build: the local variable vectorstore
    total_chunks,    \* build: the counter total_chunks
    pdf_processed,   \* build: the counter pdf_processed
    excel_processed, \* build: the counter excel_processed
    skipped,     \* build: the counter skipped
    saves,       \* build: calls of save_local in the current run
    runs,        \* build: runs of build_vectorstore started so far
    num_in,      \* excel: the value handed to fmt_num
    num_out,     \* excel: what fmt_num returned, or Pending
    data,        \* excel: what parse_data_sheet returned for the workbook
    excel_out,   \* excel: what ingest_excel returned or raised, or Pending
    pdf_pages,   \* sections: the pages of the document read so far
    mpc,         \* sections: where extract_mda_sections stands
    current_section, \* sections: the local variable current_section
    extracted,   \* sections: the local variable extracted
    sections_out, \* sections: what extract_mda_sections returned, or Pending
    split_in,    \* splitter: the text handed to split_into_sentences
    split_out,   \* splitter: what split_into_sentences returned, or Pending
    ws,          \* sheet: the rows of the Data Sheet
    parsed_sheet, \* sheet: what parse_data_sheet returned, or Pending
    date_in,     \* sheet: the cell handed to fmt_date
    date_out     \* sheet: what fmt_date returned, or Pending

analyzerVars == <<aquery, aintent, ayear, acompany>>
pipelineVars == <<pc, req, ctx, result, gen_calls, cards, vs, query_count>>
chunkerVars  == <<sentences, text_chunks, chunks_out>>
buildVars    == <<files, saved_index, bpc, entry, vectorstore_local, total_chunks,
                  pdf_processed, excel_processed, skipped, saves, runs>>
excelVars    == <<num_in, num_out, data, excel_out>>
mdaVars      == <<pdf_pages, mpc, current_section, extracted, sections_out>>
parseVars    == <<split_in, split_out, ws, parsed_sheet, date_in, date_out>>
ingestVars   == <<buildVars, excelVars, mdaVars, parseVars>>
vars == <<aquery, aintent, ayear, acompany, pc, req, ctx, result, gen_calls,
          cards, vs, query_count, sentences, text_chunks, chunks_out, files, saved_index, bpc,
          entry, vectorstore_local, total_chunks, pdf_processed, excel_processed,
          skipped, saves, runs, num_in, num_out, data, excel_out, pdf_pages, mpc,
          current_section, extracted, sections_out, split_in, split_out, ws, parsed_sheet,
          date_in, date_out>>

---------------------------------------------------------------------------
(* Text *)

\* Python's None: a one-element tuple that is no sequence of characters.
None == <<"<None>">>

\* A function that has not run yet, and one that returned value.
Pending == [done |-> FALSE]
Returned(value) == [done |-> TRUE, value |-> value]

UpperToLower ==
    ("A" :> "a") @@ ("B" :> "b") @@ ("C" :> "c") @@ ("D" :> "d") @@ ("E" :> "e") @@ ("F" :> "f")
    @@ ("G" :> "g") @@ ("H" :> "h") @@ ("I" :> "i") @@ ("J" :> "j") @@ ("K" :> "k") @@ ("L" :> "l")
    @@ ("M" :> "m") @@ ("N" :> "n") @@ ("O" :> "o") @@ ("P" :> "p") @@ ("Q" :> "q") @@ ("R" :> "r")
    @@ ("S" :> "s") @@ ("T" :> "t") @@ ("U" :> "u") @@ ("V" :> "v") @@ ("W" :> "w") @@ ("X" :> "x")
    @@ ("Y" :> "y") @@ ("Z" :> "z")

\* str.lower() on one character
LowerChar(c) == IF c \in DOMAIN UpperToLower THEN UpperToLower[c] ELSE c

\* str.lower()
Lower(s) == [i \in 1..Len(s) |-> LowerChar(s[i])]

\* Python's `sub in s` on strings
Contains(s, sub) ==
    \E i \in 0..(Len(s) - Len(sub)) : SubSeq(s, i + 1, i + Len(sub)) = sub

\* any(k in q for k in keywords)
AnyIn(keywords, q) == \E i \in 1..Len(keywords) : Contains(q, keywords[i])

IsSpace(c) == c = " "

\* str.split(): the maximal runs of non-whitespace characters, in order
RECURSIVE SplitWords(_, _, _)
SplitWords(s, i, word) ==
    IF i > Len(s)
    THEN IF word = <<>> THEN <<>> ELSE <<word>>
    ELSE IF IsSpace(s[i])
         THEN (IF word = <<>> THEN <<>> ELSE <<word>>) \o SplitWords(s, i + 1, <<>>)
         ELSE SplitWords(s, i + 1, Append(word, s[i]))

Split(s) == SplitWords(s, 1, <<>>)

\* ' '.join(words)
RECURSIVE JoinSpace(_)
JoinSpace(words) ==
    IF words = <<>> THEN <<>>
    ELSE IF Len(words) = 1 THEN words[1]
    ELSE words[1] \o <<" ">> \o JoinSpace(Tail(words))

\* Python truthiness of an optional string: None and "" are falsy
Truthy(s) == s # None /\ s # <<>>

Min(S) == CHOOSE x \in S : \A y \in S : x <= y

---------------------------------------------------------------------------
(* Query Analyzer: rag_answer.py *)

RISK_TRIGGERS ==
    << <<"r","i","s","k">>,
       <<"t","h","r","e","a","t">>,
       <<"c","h","a","l","l","e","n","g","e">>,
       <<"c","o","n","c","e","r","n">>,
       <<"e","x","p","o","s","u","r","e">>,
       <<"h","e","a","d","w","i","n","d">> >>

OUTLOOK_TRIGGERS ==
    << <<"o","u","t","l","o","o","k">>,
       <<"f","u","t","u","r","e">>,
       <<"s","t","r","a","t","e","g","y">>,
       <<"p","l","a","n">>,
       <<"g","u","i","d","a","n","c","e">>,
       <<"w","a","y"," ","f","o","r","w","a","r","d">>,
       <<"p","r","i","o","r","i","t","y">> >>

PERFORMANCE_TRIGGERS ==
    << <<"p","e","r","f","o","r","m","a","n","c","e">>,
       <<"r","e","v","e","n","u","e">>,
       <<"p","r","o","f","i","t">>,
       <<"g","r","o","w","t","h">>,
       <<"e","a","r","n","i","n","g","s">>,
       <<"m","a","r","g","i","n">>,
       <<"e","b","i","t","d","a">>,
       <<"p","a","t">> >>

PEOPLE_TRIGGERS ==
    << <<"e","m","p","l","o","y","e","e">>,
       <<"t","a","l","e","n","t">>,
       <<"h","i","r","i","n","g">>,
       <<"a","t","t","r","i","t","i","o","n">>,
       <<"w","o","r","k","f","o","r","c","e">>,
       <<"h","e","a","d","c","o","u","n","t">> >>

\* The same tests with performance tried before risk.
detect_intent_perf_first(query) ==
    LET q == Lower(query) IN
    IF AnyIn(PERFORMANCE_TRIGGERS, q) THEN "performance"
    ELSE IF AnyIn(RISK_TRIGGERS, q) THEN "risk"
    ELSE IF AnyIn(OUTLOOK_TRIGGERS, q) THEN "outlook"
    ELSE IF AnyIn(PEOPLE_TRIGGERS, q) THEN "people"
    ELSE "general"

detect_intent(query) ==
    LET q == Lower(query) IN
    IF AnyIn(RISK_TRIGGERS, q) THEN "risk"
    ELSE IF AnyIn(OUTLOOK_TRIGGERS, q) THEN "outlook"
    ELSE IF AnyIn(PERFORMANCE_TRIGGERS, q) THEN "performance"
    ELSE IF AnyIn(PEOPLE_TRIGGERS, q) THEN "people"
    ELSE "general"

KEYWORDS_risk ==
    << <<"r","i","s","k">>,
       <<"t","h","r","e","a","t">>,
       <<"c","h","a","l","l","e","n","g","e">>,
       <<"c","o","n","c","e","r","n">>,
       <<"e","x","p","o","s","u","r","e">>,
       <<"u","n","c","e","r","t","a","i","n","t","y">>,
       <<"a","d","v","e","r","s","e">>,
       <<"i","m","p","a","c","t">>,
       <<"p","r","e","s","s","u","r","e">>,
       <<"h","e","a","d","w","i","n","d">> >>

KEYWORDS_outlook ==
    << <<"f","u","t","u","r","e">>,
       <<"s","t","r","a","t","e","g","y">>,
       <<"p","l","a","n">>,
       <<"o","u","t","l","o","o","k">>,
       <<"e","x","p","e","c","t">>,
       <<"g","u","i","d","a","n","c","e">>,
       <<"g","o","i","n","g"," ","f","o","r","w","a","r","d">>,
       <<"i","n","i","t","i","a","t","i","v","e","s">>,
       <<"f","o","c","u","s">>,
       <<"t","a","r","g","e","t">>,
       <<"p","r","i","o","r","i","t","y">> >>

KEYWORDS_performance ==
    << <<"r","e","v","e","n","u","e">>,
       <<"p","r","o","f","i","t">>,
       <<"g","r","o","w","t","h">>,
       <<"i","n","c","r","e","a","s","e","d">>,
       <<"d","e","c","r","e","a","s","e","d">>,
       <<"p","e","r","f","o","r","m","a","n","c","e">>,
       <<"e","a","r","n","i","n","g","s">>,
       <<"m","a","r","g","i","n">>,
       <<"g","r","e","w">>,
       <<"c","r","o","r","e">>,
       <<"b","i","l","l","i","o","n">>,
       <<"e","b","i","t","d","a">>,
       <<"p","a","t">> >>

KEYWORDS_people ==
    << <<"e","m","p","l","o","y","e","e">>,
       <<"t","a","l","e","n","t">>,
       <<"h","i","r","i","n","g">>,
       <<"a","t","t","r","i","t","i","o","n">>,
       <<"w","o","r","k","f","o","r","c","e">>,
       <<"h","e","a","d","c","o","u","n","t">>,
       <<"t","r","a","i","n","i","n","g">>,
       <<"c","u","l","t","u","r","e">> >>

KEYWORDS_general ==
    << <<"i","n","f","o","r","m","a","t","i","o","n">>,
       <<"d","e","t","a","i","l">>,
       <<"o","v","e","r","v","i","e","w">>,
       <<"s","u","m","m","a","r","y">> >>

INTENT_KEYWORDS ==
    [risk |-> KEYWORDS_risk, outlook |-> KEYWORDS_outlook,
     performance |-> KEYWORDS_performance, people |-> KEYWORDS_people,
     general |-> KEYWORDS_general]

Intents == {"risk", "outlook", "performance", "people", "general"}

COMPANY_MAP ==
    << [key |-> <<"i","c","i","c","i">>, name |-> <<"I","C","I","C","I"," ","B","a","n","k">>],
       [key |-> <<"h","d","f","c">>, name |-> <<"H","D","F","C">>],
       [key |-> <<"t","c","s">>, name |-> <<"T","C","S">>],
       [key |-> <<"i","n","f","o","s","y","s">>, name |-> <<"I","n","f","o","s","y","s">>],
       [key |-> <<"r","e","l","i","a","n","c","e">>, name |-> <<"R","e","l","i","a","n","c","e"," ","I","n","d","u","s","t","r","i","e","s">>],
       [key |-> <<"a","d","a","n","i">>, name |-> <<"A","d","a","n","i"," ","P","o","w","e","r">>] >>

\* Where sub first occurs in s (s contains sub).
FirstAt(s, sub) ==
    Min({i \in 1..(Len(s) - Len(sub) + 1) : SubSeq(s, i, i + Len(sub) - 1) = sub})

\* The alias that occurs earliest in the query text.
extract_company_first_in_text(query) ==
    LET q == Lower(query)
        hits == {i \in 1..Len(COMPANY_MAP) : Contains(q, COMPANY_MAP[i].key)}
    IN  IF hits = {} THEN [key |-> None, name |-> None]
        ELSE COMPANY_MAP[CHOOSE i \in hits : \A j \in hits :
                            FirstAt(q, COMPANY_MAP[i].key) <= FirstAt(q, COMPANY_MAP[j].key)]

extract_company(query) ==
    LET q == Lower(query)
        hits == {i \in 1..Len(COMPANY_MAP) : Contains(q, COMPANY_MAP[i].key)}
    IN  IF hits = {} THEN [key |-> None, name |-> None]
        ELSE COMPANY_MAP[Min(hits)]

FY2023_24 == <<"F","Y","2","0","2","3","-","2","4">>
FY2024_25 == <<"F","Y","2","0","2","4","-","2","5">>

extract_year(query) ==
    LET q == Lower(query) IN
    IF \/ Contains(q, <<"2","0","2","4">>)
       \/ Contains(q, <<"f","y","2","4">>)
       \/ Contains(q, <<"2","0","2","3","-","2","4">>)
    THEN FY2023_24
    ELSE IF \/ Contains(q, <<"2","0","2","5">>)
            \/ Contains(q, <<"f","y","2","5">>)
            \/ Contains(q, <<"2","0","2","4","-","2","5">>)
    THEN FY2024_25
    ELSE None

---------------------------------------------------------------------------
(* The analyzers applied to bounded query strings *)

\* A query is at most MaxQueryWords fragments written one after the other.
MaxQueryWords == 2

QueryFragments ==
    { <<"W","h","a","t"," ","a","r","e"," ","t","h","e"," ","r","i","s","k","s"," ","t","o"," ">>,
      <<"r","e","v","e","n","u","e"," ","g","r","o","w","t","h","?">>,
      <<"W","h","a","t"," ","w","a","s"," ","T","C","S"," ","p","e","r","f","o","r","m","a","n","c","e"," ","i","n"," ">>,
      <<"F","Y","2","5","?">>,
      <<"I","C","I","C","I"," ","B","a","n","k"," ","r","i","s","k","s">>,
      <<"2","0","2","4">>,
      <<"-","2","5">>,
      <<"2","0","2","3","-","2","4">>,
      <<"2","0">>,
      <<"2","5">>,
      <<" ","f","y","2","4"," ">>,
      <<"o","u","t","l","o","o","k"," ","f","o","r"," ">>,
      <<"h","i","r","i","n","g">>,
      <<"p">>,
      <<"l","a","n">>,
      <<"I","n","f","o","s","y","s"," ","a","n","d"," ","t","c","s">> }

RECURSIVE Flatten(_)
Flatten(parts) ==
    IF parts = <<>> THEN <<>> ELSE parts[1] \o Flatten(Tail(parts))

TextsOf(fragments, n) ==
    {Flatten(parts) : parts \in UNION {[1..k -> fragments] : k \in 0..n}}

Queries == TextsOf(QueryFragments, MaxQueryWords)

---------------------------------------------------------------------------
(* The loaded index *)

ICICI_Bank == <<"I","C","I","C","I"," ","B","a","n","k">>
TCS        == <<"T","C","S">>
Multi_Year == <<"M","u","l","t","i","-","Y","e","a","r">>
SEC_RISK    == <<"R","i","s","k","s"," ","&"," ","R","i","s","k"," ","M","a","n","a","g","e","m","e","n","t">>
SEC_OUTLOOK == <<"O","u","t","l","o","o","k"," ","&"," ","S","t","r","a","t","e","g","y">>
SEC_PNL     == <<"P","r","o","f","i","t"," ","&"," ","L","o","s","s">>

\* A stored chunk: its text (an identity and the length of the text after
\* strip()) and its metadata.
Doc(id, len, company, year, section, chunk_index) ==
    [page_content |-> [id |-> id, len |-> len],
     metadata |-> [company |-> company, year |-> year, section |-> section,
                   chunk_index |-> chunk_index]]

\* The index load_vectorstore returned: chunks of {ICICI Bank, FY2023-24},
\* {ICICI Bank, FY2024-25} and {TCS, FY2024-25}, two of them sharing company,
\* year and section, one financial summary chunk and one short text.
LoadedIndex ==
    << Doc(1, 400, ICICI_Bank, FY2023_24, SEC_RISK, 0),
       Doc(2, 400, ICICI_Bank, FY2024_25, SEC_RISK, 0),
       Doc(3, 400, ICICI_Bank, FY2024_25, SEC_RISK, 1),
       Doc(4, 400, TCS, FY2024_25, SEC_OUTLOOK, 0),
       Doc(5, 300, TCS, Multi_Year, SEC_PNL, 0),
       Doc(6, 60, ICICI_Bank, FY2024_25, SEC_OUTLOOK, 2) >>

---------------------------------------------------------------------------
(* Retriever: rag_answer.py, retrieve_context *)

\* Sequences of distinct positions of an index of size chunks, at most n long:
\* what a search for n results can return.
PicksOf(n, size) ==
    {s \in UNION {[1..k -> 1..size] : k \in 0..n} :
        \A i, j \in 1..Len(s) : i # j => s[i] # s[j]}

Picks(n) == PicksOf(n, Len(LoadedIndex))

\* Distances are in hundredths: 85 stands for 0.85.
SCORE_THRESHOLD == 85
Scores == {85, 120}

\* The score None of the (doc, None) pairs: no distance is negative.
NO_SCORE == -1

\* What the vector backend does on one call of retrieve_context:
\* the diversity search returns docs or raises, and so does the plain search.
SearchOutcomesOf(top_k, size) ==
    {[mmr_ok |-> TRUE, sim_ok |-> TRUE, picks |-> p, scores |-> <<>>] : p \in PicksOf(top_k, size)}
    \cup
    UNION {{[mmr_ok |-> FALSE, sim_ok |-> TRUE, picks |-> p, scores |-> sc] :
               sc \in [1..Len(p) -> Scores]} : p \in PicksOf(top_k, size)}
    \cup
    {[mmr_ok |-> FALSE, sim_ok |-> FALSE, picks |-> <<>>, scores |-> <<>>]}

SearchOutcomes(top_k) == SearchOutcomesOf(top_k, Len(LoadedIndex))

\* The year of the query text tried first, the parameter only after it.
ResolveYear_query_first(query, year_filter) ==
    IF extract_year(query) # None THEN extract_year(query) ELSE year_filter

ResolveCompany(query, company_filter) ==
    IF company_filter = None THEN extract_company(query).name ELSE company_filter

ResolveYear(query, year_filter) ==
    IF year_filter = None THEN extract_year(query) ELSE year_filter

\* company_filter.lower().split()[0] raises IndexError on a string without words
CompanyKeyRaises(company_filter) ==
    Truthy(company_filter) /\ Split(Lower(company_filter)) = <<>>

CompanyKey(company_filter) ==
    IF Truthy(company_filter) THEN Split(Lower(company_filter))[1] ELSE None

\* The expansion taken from the risk list whatever the intent is.
EnhancedQuery_risk_list(query, intent) ==
    query \o <<" ">> \o JoinSpace(SubSeq(INTENT_KEYWORDS["risk"], 1, 4))

\* expansion = ' '.join(INTENT_KEYWORDS[intent][:4]); f"{query} {expansion}"
EnhancedQuery(query, intent) ==
    query \o <<" ">> \o JoinSpace(SubSeq(INTENT_KEYWORDS[intent], 1, 4))

\* docs_with_scores: (doc, None) pairs from the diversity search, else the
\* (doc, score) pairs of the plain search.
DocsWithScores(vectorstore, outcome) ==
    [i \in 1..Len(outcome.picks) |->
        [doc |-> vectorstore[outcome.picks[i]],
         score |-> IF outcome.mmr_ok THEN NO_SCORE ELSE outcome.scores[i]]]

\* The search calls one run of retrieve_context issues, in order: the plain
\* search is in the except branch of the diversity search.
MmrCall(top_k) ==
    [fn |-> "max_marginal_relevance_search", k |-> top_k, fetch_k |-> top_k * 3]

SimilarityCall(top_k) ==
    [fn |-> "similarity_search_with_score", k |-> top_k, fetch_k |-> 0]

SearchCalls(top_k, outcome) ==
    IF outcome.mmr_ok THEN <<MmrCall(top_k)>>
    ELSE <<MmrCall(top_k), SimilarityCall(top_k)>>

\* The reversed sequence, as a search that reorders the store would leave it.
AfterSearches_reorders(vectorstore, calls) ==
    [i \in 1..Len(vectorstore) |-> vectorstore[Len(vectorstore) + 1 - i]]

\* The index after the search calls: both are queries of the store, and
\* retrieve_context calls nothing else on it.
AfterSearches(vectorstore, calls) == vectorstore

\* A score at the threshold dropped as well.
ScoreDrops_at_threshold(score, score_threshold) ==
    score # NO_SCORE /\ score >= score_threshold

ScoreDrops(score, score_threshold) ==
    score # NO_SCORE /\ score > score_threshold

CompanyDrops(company_key, meta_company) ==
    company_key # None /\ ~Contains(Lower(meta_company), company_key)

\* The year test left out.
YearDrops_never(year_filter, doc_year) == FALSE

YearDrops(year_filter, doc_year) ==
    Truthy(year_filter) /\ doc_year # year_filter

MIN_TEXT_LEN == 100

TextDrops(page_content) == page_content.len < MIN_TEXT_LEN

Keeps(item, company_key, year_filter, score_threshold) ==
    /\ ~ScoreDrops(item.score, score_threshold)
    /\ ~CompanyDrops(company_key, item.doc.metadata.company)
    /\ ~YearDrops(year_filter, item.doc.metadata.year)
    /\ ~TextDrops(item.doc.page_content)

\* The source record with the chunk index of the section's first chunk.
SourceOf_first_index(doc) ==
    [company |-> doc.metadata.company, year |-> doc.metadata.year,
     section |-> doc.metadata.section, chunk_index |-> 0]

SourceOf(doc) ==
    [company |-> doc.metadata.company, year |-> doc.metadata.year,
     section |-> doc.metadata.section, chunk_index |-> doc.metadata.chunk_index]

\* The kept items with the latest one first.
RECURSIVE KeptItems_latest_first(_, _, _, _)
KeptItems_latest_first(items, company_key, year_filter, score_threshold) ==
    IF items = <<>> THEN <<>>
    ELSE KeptItems_latest_first(Tail(items), company_key, year_filter, score_threshold)
         \o (IF Keeps(items[1], company_key, year_filter, score_threshold)
             THEN <<items[1]>> ELSE <<>>)

\* The loop over docs_with_scores: the kept items, in order.
RECURSIVE KeptItems(_, _, _, _)
KeptItems(items, company_key, year_filter, score_threshold) ==
    IF items = <<>> THEN <<>>
    ELSE (IF Keeps(items[1], company_key, year_filter, score_threshold)
          THEN <<items[1]>> ELSE <<>>)
         \o KeptItems(Tail(items), company_key, year_filter, score_threshold)

retrieve_context(vectorstore, query, company_filter, year_filter, top_k, score_threshold, outcome) ==
    LET intent == detect_intent(query)
        company == ResolveCompany(query, company_filter)
        year == ResolveYear(query, year_filter)
        items == DocsWithScores(vectorstore, outcome)
    IN  IF CompanyKeyRaises(company)
        THEN [raised |-> "IndexError"]
        ELSE IF ~outcome.mmr_ok /\ ~outcome.sim_ok
        THEN [raised |-> "SearchError"]
        ELSE LET kept == KeptItems(items, CompanyKey(company), year, score_threshold)
             IN  [raised |-> "",
                  chunks |-> [i \in 1..Len(kept) |-> kept[i].doc.page_content],
                  sources |-> [i \in 1..Len(kept) |-> SourceOf(kept[i].doc)],
                  intent |-> intent,
                  company_filter |-> company,
                  year_filter |-> year,
                  enhanced_query |-> EnhancedQuery(query, intent),
                  search |-> IF outcome.mmr_ok THEN "mmr" ELSE "similarity",
                  searches |-> SearchCalls(top_k, outcome),
                  docs_with_scores |-> items]

---------------------------------------------------------------------------
(* Answer Composer: rag_answer.py, generate_answer *)

\* The strings generate_answer and retrieve_and_answer return.  An answer is
\* a record: a fixed text and, for the generic error, the embedded message.
Answer(text) == [text |-> text, err |-> <<>>]

NO_INFO_COMPOSE ==
    Answer("No relevant information found in the documents for this query.")
NO_INFO_PIPELINE ==
    Answer("No relevant information found. Try rephrasing, selecting a specific company/year, or ensure the vectorstore is built.")
KEY_MISSING ==
    Answer("GROQ_API_KEY not found. Create a .env file with: GROQ_API_KEY=your_key_here")
INVALID_KEY ==
    Answer("Invalid Groq API key. Check your .env file.")
RATE_LIMIT ==
    Answer("Groq rate limit hit. Wait a moment and try again.")
GenericError(err) == [text |-> "Groq API error: ", err |-> err]
LlmContent == Answer("<response.choices[0].message.content>")

API_KEY_TOKEN        == <<"a","p","i","_","k","e","y">>
AUTHENTICATION_TOKEN == <<"a","u","t","h","e","n","t","i","c","a","t","i","o","n">>
RATE_LIMIT_TOKEN     == <<"r","a","t","e","_","l","i","m","i","t">>

\* The rate-limit test tried before the authentication test.
ClassifyError_rate_first(err) ==
    IF Contains(Lower(err), RATE_LIMIT_TOKEN) THEN RATE_LIMIT
    ELSE IF \/ Contains(Lower(err), API_KEY_TOKEN)
            \/ Contains(Lower(err), AUTHENTICATION_TOKEN)
    THEN INVALID_KEY
    ELSE GenericError(err)

\* the except branch: str(e) classified by substring
ClassifyError(err) ==
    IF \/ Contains(Lower(err), API_KEY_TOKEN)
       \/ Contains(Lower(err), AUTHENTICATION_TOKEN)
    THEN INVALID_KEY
    ELSE IF Contains(Lower(err), RATE_LIMIT_TOKEN) THEN RATE_LIMIT
    ELSE GenericError(err)

\* What the environment and the generation backend do on one call:
\* api_key is os.getenv("GROQ_API_KEY"); at is where an exception is raised
\* ("client": in Groq(), "create": in the completion call, "": nowhere).
GenOutcome(api_key, at, err) == [api_key |-> api_key, at |-> at, err |-> err]

\* The empty-chunks test left out.
EmptyChunks_never(chunks) == FALSE

\* `if not chunks`
EmptyChunks(chunks) == chunks = <<>>

\* Returns the answer and the number of completion calls issued.
generate_answer(query, chunks, intent, company_name, year_filter, gen) ==
    IF EmptyChunks(chunks)
    THEN [answer |-> NO_INFO_COMPOSE, calls |-> 0]
    ELSE IF ~Truthy(gen.api_key)
    THEN [answer |-> KEY_MISSING, calls |-> 0]
    ELSE IF gen.at = "client"
    THEN [answer |-> ClassifyError(gen.err), calls |-> 0]
    ELSE IF gen.at = "create"
    THEN [answer |-> ClassifyError(gen.err), calls |-> 1]
    ELSE [answer |-> LlmContent, calls |-> 1]

---------------------------------------------------------------------------
(* Main entry point: rag_answer.py, retrieve_and_answer *)

ALL_COMPANIES == <<"A","l","l"," ","C","o","m","p","a","n","i","e","s">>
ALL_YEARS     == <<"A","l","l"," ","Y","e","a","r","s">>

\* `x or default`
OrElse(x, default) == IF Truthy(x) THEN x ELSE default

\* The result once retrieve_context has returned rc.
ResultOf(query, rc, gen) ==
    IF rc.chunks = <<>>
    THEN [value |-> [answer |-> NO_INFO_PIPELINE,
                     sources |-> <<>>,
                     intent |-> rc.intent,
                     company |-> OrElse(rc.company_filter, ALL_COMPANIES),
                     year |-> OrElse(rc.year_filter, ALL_YEARS)],
          calls |-> 0]
    ELSE LET g == generate_answer(query, rc.chunks, rc.intent,
                                  rc.company_filter, rc.year_filter, gen)
         IN  [value |-> [answer |-> g.answer,
                         sources |-> rc.sources,
                         intent |-> rc.intent,
                         company |-> OrElse(rc.company_filter, ALL_COMPANIES),
                         year |-> OrElse(rc.year_filter, ALL_YEARS)],
              calls |-> g.calls]

---------------------------------------------------------------------------
(* Source cards: app.py, show_main_app *)

\* The key with the chunk index in it.
CardKey_with_index(s) ==
    <<s.company \o <<"-">> \o s.year \o <<"-">> \o s.section, s.chunk_index>>

\* f"{s['company']}-{s['year']}-{s['section']}"
CardKey(s) == s.company \o <<"-">> \o s.year \o <<"-">> \o s.section

\* One card for the first source of each key, in order.
RECURSIVE SourceCards(_, _)
SourceCards(sources, seen_src) ==
    IF sources = <<>> THEN <<>>
    ELSE IF CardKey(sources[1]) \in seen_src
         THEN SourceCards(Tail(sources), seen_src)
         ELSE <<[company |-> sources[1].company, year |-> sources[1].year,
                 section |-> sources[1].section]>>
              \o SourceCards(Tail(sources), seen_src \cup {CardKey(sources[1])})

---------------------------------------------------------------------------
(* Section extraction: extract_mda_sections of ingest_mda.py *)

SEC_MACRO     == <<"M","a","c","r","o"," ","&"," ","E","c","o","n","o","m","i","c"," ","E","n","v","i","r","o","n","m","e","n","t">>
SEC_INDUSTRY  == <<"I","n","d","u","s","t","r","y"," ","&"," ","S","e","c","t","o","r"," ","O","v","e","r","v","i","e","w">>
SEC_BUSINESS  == <<"B","u","s","i","n","e","s","s"," ","P","e","r","f","o","r","m","a","n","c","e">>
SEC_OPERATING == <<"O","p","e","r","a","t","i","n","g"," ","&"," ","F","i","n","a","n","c","i","a","l"," ","P","e","r","f","o","r","m","a","n","c","e">>
SEC_SEGMENT   == <<"S","e","g","m","e","n","t"," ","P","e","r","f","o","r","m","a","n","c","e">>
SEC_HUMAN     == <<"H","u","m","a","n"," ","C","a","p","i","t","a","l">>
SEC_TECH      == <<"T","e","c","h","n","o","l","o","g","y"," ","&"," ","I","n","n","o","v","a","t","i","o","n">>
MDA_GENERAL   == <<"M","D","&","A","-","G","e","n","e","r","a","l">>

\* SECTION_KEYWORDS, in the order of its declaration
SECTION_KEYWORDS ==
    <<
       [section |-> SEC_MACRO,
        keywords |-> <<
            <<"e","c","o","n","o","m","i","c"," ","e","n","v","i","r","o","n","m","e","n","t">>,
            <<"g","l","o","b","a","l"," ","e","c","o","n","o","m","i","c">>,
            <<"m","a","c","r","o","e","c","o","n","o","m","i","c">>,
            <<"e","c","o","n","o","m","i","c"," ","o","u","t","l","o","o","k">>,
            <<"i","n","t","e","r","e","s","t"," ","r","a","t","e"," ","e","n","v","i","r","o","n","m","e","n","t">>,
            <<"g","l","o","b","a","l"," ","e","c","o","n","o","m","y">>,
            <<"e","c","o","n","o","m","i","c"," ","c","o","n","d","i","t","i","o","n","s">>,
            <<"g","e","o","p","o","l","i","t","i","c","a","l">> >>],
       [section |-> SEC_INDUSTRY,
        keywords |-> <<
            <<"b","a","n","k","i","n","g"," ","i","n","d","u","s","t","r","y">>,
            <<"i","n","d","u","s","t","r","y"," ","o","v","e","r","v","i","e","w">>,
            <<"i","n","d","u","s","t","r","y"," ","s","c","e","n","a","r","i","o">>,
            <<"i","n","d","i","a","n"," ","b","a","n","k","i","n","g">>,
            <<"i","t"," ","i","n","d","u","s","t","r","y">>,
            <<"t","e","c","h","n","o","l","o","g","y"," ","i","n","d","u","s","t","r","y">>,
            <<"s","o","f","t","w","a","r","e"," ","i","n","d","u","s","t","r","y">>,
            <<"o","i","l"," ","a","n","d"," ","g","a","s">>,
            <<"e","n","e","r","g","y"," ","s","e","c","t","o","r">>,
            <<"t","e","l","e","c","o","m"," ","s","e","c","t","o","r">>,
            <<"r","e","t","a","i","l"," ","s","e","c","t","o","r">>,
            <<"i","n","d","u","s","t","r","y"," ","t","r","e","n","d","s">> >>],
       [section |-> SEC_BUSINESS,
        keywords |-> <<
            <<"b","u","s","i","n","e","s","s"," ","p","e","r","f","o","r","m","a","n","c","e">>,
            <<"o","v","e","r","v","i","e","w"," ","o","f"," ","p","e","r","f","o","r","m","a","n","c","e">>,
            <<"p","e","r","f","o","r","m","a","n","c","e"," ","d","u","r","i","n","g"," ","t","h","e"," ","y","e","a","r">>,
            <<"r","e","v","i","e","w"," ","o","f"," ","t","h","e"," ","y","e","a","r">>,
            <<"b","u","s","i","n","e","s","s"," ","o","v","e","r","v","i","e","w">>,
            <<"k","e","y"," ","h","i","g","h","l","i","g","h","t","s">>,
            <<"y","e","a","r"," ","i","n"," ","r","e","v","i","e","w">> >>],
       [section |-> SEC_OPERATING,
        keywords |-> <<
            <<"o","p","e","r","a","t","i","n","g"," ","p","e","r","f","o","r","m","a","n","c","e">>,
            <<"f","i","n","a","n","c","i","a","l"," ","p","e","r","f","o","r","m","a","n","c","e">>,
            <<"r","e","v","i","e","w"," ","o","f"," ","o","p","e","r","a","t","i","o","n","s">>,
            <<"o","p","e","r","a","t","i","o","n","a","l"," ","p","e","r","f","o","r","m","a","n","c","e">>,
            <<"f","i","n","a","n","c","i","a","l"," ","r","e","s","u","l","t","s">>,
            <<"r","e","s","u","l","t","s"," ","o","f"," ","o","p","e","r","a","t","i","o","n","s">>,
            <<"c","o","n","s","o","l","i","d","a","t","e","d"," ","p","e","r","f","o","r","m","a","n","c","e">> >>],
       [section |-> SEC_SEGMENT,
        keywords |-> <<
            <<"s","e","g","m","e","n","t"," ","p","e","r","f","o","r","m","a","n","c","e">>,
            <<"s","e","g","m","e","n","t","-","w","i","s","e"," ","p","e","r","f","o","r","m","a","n","c","e">>,
            <<"b","u","s","i","n","e","s","s"," ","s","e","g","m","e","n","t","s">>,
            <<"g","e","o","g","r","a","p","h","i","c"," ","p","e","r","f","o","r","m","a","n","c","e">>,
            <<"v","e","r","t","i","c","a","l"," ","p","e","r","f","o","r","m","a","n","c","e">>,
            <<"s","e","r","v","i","c","e"," ","l","i","n","e">>,
            <<"s","e","g","m","e","n","t"," ","r","e","s","u","l","t","s">> >>],
       [section |-> SEC_RISK,
        keywords |-> <<
            <<"r","i","s","k"," ","m","a","n","a","g","e","m","e","n","t">>,
            <<"k","e","y"," ","r","i","s","k","s">>,
            <<"c","r","e","d","i","t"," ","r","i","s","k">>,
            <<"m","a","r","k","e","t"," ","r","i","s","k">>,
            <<"o","p","e","r","a","t","i","o","n","a","l"," ","r","i","s","k">>,
            <<"r","i","s","k"," ","f","a","c","t","o","r","s">>,
            <<"p","r","i","n","c","i","p","a","l"," ","r","i","s","k","s">>,
            <<"e","n","t","e","r","p","r","i","s","e"," ","r","i","s","k">>,
            <<"c","y","b","e","r","s","e","c","u","r","i","t","y"," ","r","i","s","k">>,
            <<"r","e","g","u","l","a","t","o","r","y"," ","r","i","s","k">>,
            <<"l","i","q","u","i","d","i","t","y"," ","r","i","s","k">> >>],
       [section |-> SEC_OUTLOOK,
        keywords |-> <<
            <<"o","u","t","l","o","o","k">>,
            <<"f","u","t","u","r","e"," ","o","u","t","l","o","o","k">>,
            <<"s","t","r","a","t","e","g","y">>,
            <<"w","a","y"," ","f","o","r","w","a","r","d">>,
            <<"f","o","r","w","a","r","d"," ","l","o","o","k","i","n","g">>,
            <<"s","t","r","a","t","e","g","i","c"," ","p","r","i","o","r","i","t","i","e","s">>,
            <<"s","t","r","a","t","e","g","i","c"," ","f","o","c","u","s">>,
            <<"g","r","o","w","t","h"," ","s","t","r","a","t","e","g","y">>,
            <<"d","i","g","i","t","a","l"," ","s","t","r","a","t","e","g","y">>,
            <<"s","u","s","t","a","i","n","a","b","i","l","i","t","y">>,
            <<"e","s","g">> >>],
       [section |-> SEC_HUMAN,
        keywords |-> <<
            <<"h","u","m","a","n"," ","c","a","p","i","t","a","l">>,
            <<"e","m","p","l","o","y","e","e","s">>,
            <<"t","a","l","e","n","t">>,
            <<"w","o","r","k","f","o","r","c","e">>,
            <<"p","e","o","p","l","e"," ","s","t","r","a","t","e","g","y">>,
            <<"a","t","t","r","i","t","i","o","n">>,
            <<"h","i","r","i","n","g">> >>],
       [section |-> SEC_TECH,
        keywords |-> <<
            <<"t","e","c","h","n","o","l","o","g","y"," ","i","n","i","t","i","a","t","i","v","e","s">>,
            <<"d","i","g","i","t","a","l"," ","t","r","a","n","s","f","o","r","m","a","t","i","o","n">>,
            <<"a","r","t","i","f","i","c","i","a","l"," ","i","n","t","e","l","l","i","g","e","n","c","e">>,
            <<"c","l","o","u","d">>,
            <<"i","n","n","o","v","a","t","i","o","n">>,
            <<"r","e","s","e","a","r","c","h"," ","a","n","d"," ","d","e","v","e","l","o","p","m","e","n","t">>,
            <<"r","&","d">> >>] >>

\* The keys of extracted in the order they are inserted: the sections of
\* SECTION_KEYWORDS, then the general label.
SectionKeys ==
    [i \in 1..(Len(SECTION_KEYWORDS) + 1) |->
        IF i <= Len(SECTION_KEYWORDS) THEN SECTION_KEYWORDS[i].section ELSE MDA_GENERAL]

\* extracted = {section: [] for section in SECTION_KEYWORDS}; extracted["MD&A-General"] = []
EmptySections == [s \in {SectionKeys[i] : i \in DOMAIN SectionKeys} |-> <<>>]

\* The characters str.strip() removes, as far as the lines below hold them.
IsWhitespace(c) == c \in {" ", "\t", "\r", "\f"}

\* str.strip(): the text without its leading and trailing whitespace
RECURSIVE LStrip(_)
LStrip(s) == IF s # <<>> /\ IsWhitespace(s[1]) THEN LStrip(Tail(s)) ELSE s

RECURSIVE RStrip(_)
RStrip(s) ==
    IF s # <<>> /\ IsWhitespace(s[Len(s)]) THEN RStrip(SubSeq(s, 1, Len(s) - 1)) ELSE s

Strip(s) == RStrip(LStrip(s))

\* The loop over SECTION_KEYWORDS.items() without its break: every section
\* with a keyword in the line assigns current_section, the last one stays.
RECURSIVE ScanSections_no_break(_, _, _)
ScanSections_no_break(i, line_lower, current) ==
    IF i > Len(SECTION_KEYWORDS) THEN current
    ELSE IF AnyIn(SECTION_KEYWORDS[i].keywords, line_lower)
         THEN ScanSections_no_break(i + 1, line_lower, SECTION_KEYWORDS[i].section)
         ELSE ScanSections_no_break(i + 1, line_lower, current)

\* The loop over SECTION_KEYWORDS.items() from its i-th item: the first section
\* with a keyword in the line is assigned to current_section and ends the
\* loop; when the loop runs out, current_section is what it was.
RECURSIVE ScanSections(_, _, _)
ScanSections(i, line_lower, current) ==
    IF i > Len(SECTION_KEYWORDS) THEN current
    ELSE IF AnyIn(SECTION_KEYWORDS[i].keywords, line_lower)
         THEN SECTION_KEYWORDS[i].section
         ELSE ScanSections(i + 1, line_lower, current)

\* if len(line_clean) > 40
KEPT_LONGER_THAN == 40

IsKept(line_clean) == Len(line_clean) > KEPT_LONGER_THAN

\* line_clean = line.strip(), and current_section after the loop over the
\* sections has looked at line_clean.lower().
ScanLine(line, current) ==
    LET line_clean == Strip(line)
    IN  [line_clean |-> line_clean,
         section |-> ScanSections(1, Lower(line_clean), current)]

\* extracted after the test of the length of line_clean.
AppendKept(line_clean, section, page, sections) ==
    IF IsKept(line_clean)
    THEN [sections EXCEPT ![section] = Append(@, [text |-> line_clean, page |-> page])]
    ELSE sections

\* {k: v for k, v in extracted.items() if v}, in the order of the keys
RECURSIVE NonEmptyFrom(_, _)
NonEmptyFrom(i, sections) ==
    IF i > Len(SectionKeys) THEN <<>>
    ELSE (IF sections[SectionKeys[i]] = <<>> THEN <<>>
          ELSE <<[section |-> SectionKeys[i], entries |-> sections[SectionKeys[i]]]>>)
         \o NonEmptyFrom(i + 1, sections)

\* Every key of extracted returned, with or without entries.
NonEmptySections_all(sections) ==
    [i \in 1..Len(SectionKeys) |->
        [section |-> SectionKeys[i], entries |-> sections[SectionKeys[i]]]]

NonEmptySections(sections) == NonEmptyFrom(1, sections)

\* A page whose extract_text() gives no text, and a page with its lines.
NoTextPage == [has_text |-> FALSE]
TextPage(lines) == [has_text |-> TRUE, lines |-> lines]

---------------------------------------------------------------------------
(* Chunker: ingest_mda.py *)

\* abbr_map, in the order of its declaration
ABBR_MAP ==
    <<
       [full |-> <<"D","r",".">>, short |-> <<"D","r">>],
       [full |-> <<"M","r",".">>, short |-> <<"M","r">>],
       [full |-> <<"M","s",".">>, short |-> <<"M","s">>],
       [full |-> <<"I","n","c",".">>, short |-> <<"I","n","c">>],
       [full |-> <<"L","t","d",".">>, short |-> <<"L","t","d">>],
       [full |-> <<"e",".","g",".">>, short |-> <<"e","g">>],
       [full |-> <<"i",".","e",".">>, short |-> <<"i","e">>],
       [full |-> <<"v","s",".">>, short |-> <<"v","s">>],
       [full |-> <<"R","s",".">>, short |-> <<"R","s">>],
       [full |-> <<"N","o",".">>, short |-> <<"N","o">>],
       [full |-> <<"C","o",".">>, short |-> <<"C","o">>],
       [full |-> <<"a","p","p","r","o","x",".">>, short |-> <<"a","p","p","r","o","x">>],
       [full |-> <<"e","s","t",".">>, short |-> <<"e","s","t">>] >>

\* str.replace(full, short): the occurrences of full, taken from left to
\* right without overlap, replaced by short
RECURSIVE Replace(_, _, _)
Replace(text, full, short) ==
    IF Len(text) < Len(full) THEN text
    ELSE IF SubSeq(text, 1, Len(full)) = full
         THEN short \o Replace(SubSeq(text, Len(full) + 1, Len(text)), full, short)
         ELSE <<text[1]>> \o Replace(Tail(text), full, short)

\* for full, short in abbr_map.items(): text = text.replace(full, short),
\* from the i-th item on
RECURSIVE ProtectAbbreviations(_, _)
ProtectAbbreviations(text, i) ==
    IF i > Len(ABBR_MAP) THEN text
    ELSE ProtectAbbreviations(Replace(text, ABBR_MAP[i].full, ABBR_MAP[i].short), i + 1)

\* The classes of the pattern (?<=[.!?])\s+(?=[A-Z])
IsSentenceEnd(c) == c \in {".", "!", "?"}
IsRegexSpace(c) == c \in {" ", "\t", "\n", "\r", "\f"}
IsUpperAZ(c) == c \in DOMAIN UpperToLower

\* The last position of the run of whitespace that starts at position i.
RECURSIVE RunEnd(_, _)
RunEnd(text, i) ==
    IF i < Len(text) /\ IsRegexSpace(text[i + 1]) THEN RunEnd(text, i + 1) ELSE i

\* re.split of the pattern from position i on, piece being the text since
\* the last match: a match is a whole run of whitespace that follows one of
\* . ! ? and is followed by a capital letter; the run itself is dropped.
RECURSIVE SplitAtBoundaries(_, _, _)
SplitAtBoundaries(text, i, piece) ==
    IF i > Len(text) THEN <<piece>>
    ELSE IF /\ i > 1
            /\ IsSentenceEnd(text[i - 1])
            /\ IsRegexSpace(text[i])
            /\ RunEnd(text, i) < Len(text)
            /\ IsUpperAZ(text[RunEnd(text, i) + 1])
         THEN <<piece>> \o SplitAtBoundaries(text, RunEnd(text, i) + 1, <<>>)
         ELSE SplitAtBoundaries(text, i + 1, Append(piece, text[i]))

split_into_sentences(text) ==
    SplitAtBoundaries(ProtectAbbreviations(text, 1), 1, <<>>)

\* A section's text is modelled by the sentences split_into_sentences gives
\* for it: sentence i is at position i and has length sentences[i] after
\* strip().  A chunk is the sequence of the positions of its sentences, which
\* ' '.join writes with one space between two sentences.

CHUNK_SIZE == 1000
OVERLAP_SENTENCES == 2
MIN_SENTENCE_LEN == 10
MIN_SECTION_LEN == 100
MIN_CHUNK_LEN == 150

RECURSIVE SumLens(_, _)
SumLens(sents, positions) ==
    IF positions = <<>> THEN 0
    ELSE sents[positions[1]] + SumLens(sents, Tail(positions))

\* len(' '.join(chunk))
JoinedLen(sents, positions) ==
    IF positions = <<>> THEN 0
    ELSE SumLens(sents, positions) + Len(positions) - 1

\* lst[-n:]
LastN(lst, n) ==
    IF Len(lst) <= n THEN lst ELSE SubSeq(lst, Len(lst) - n + 1, Len(lst))

\* [s.strip() for s in sentences if len(s.strip()) >= 10], as positions
RECURSIVE LongEnough(_, _)
LongEnough(sents, i) ==
    IF i > Len(sents) THEN <<>>
    ELSE (IF sents[i] >= MIN_SENTENCE_LEN THEN <<i>> ELSE <<>>)
         \o LongEnough(sents, i + 1)

\* The test on the buffer inverted: only an empty buffer is closed.
MustClose_inverted(current_chunk, current_size, sentence_length, chunk_size) ==
    current_size + sentence_length > chunk_size /\ current_chunk = <<>>

\* `current_size + sentence_length > chunk_size and current_chunk`
MustClose(current_chunk, current_size, sentence_length, chunk_size) ==
    current_size + sentence_length > chunk_size /\ current_chunk # <<>>

\* The overlap taken one sentence short.
Carry_one_short(current_chunk, overlap_sentences) ==
    LastN(current_chunk, overlap_sentences - 1)

\* current_chunk[-overlap_sentences:]
Carry(current_chunk, overlap_sentences) == LastN(current_chunk, overlap_sentences)

\* The loop without the flush after it: the remainder is never appended.
RECURSIVE Pack_no_flush(_, _, _, _, _, _, _)
Pack_no_flush(sents, todo, chunks, current_chunk, current_size, chunk_size, overlap_sentences) ==
    IF todo = <<>>
    THEN chunks
    ELSE LET sentence_length == sents[todo[1]]
             close == MustClose(current_chunk, current_size, sentence_length, chunk_size)
             carried == Carry(current_chunk, overlap_sentences)
             chunks1 == IF close THEN Append(chunks, current_chunk) ELSE chunks
             chunk1 == IF close THEN carried ELSE current_chunk
             size1 == IF close THEN SumLens(sents, carried) ELSE current_size
         IN  Pack_no_flush(sents, Tail(todo), chunks1, Append(chunk1, todo[1]),
                           size1 + sentence_length + 1, chunk_size, overlap_sentences)

\* The loop of chunk_text_by_sentences over the kept sentences todo, and the
\* flush after it.
RECURSIVE Pack(_, _, _, _, _, _, _)
Pack(sents, todo, chunks, current_chunk, current_size, chunk_size, overlap_sentences) ==
    IF todo = <<>>
    THEN IF current_chunk # <<>> THEN Append(chunks, current_chunk) ELSE chunks
    ELSE LET sentence_length == sents[todo[1]]
             close == MustClose(current_chunk, current_size, sentence_length, chunk_size)
             carried == Carry(current_chunk, overlap_sentences)
             chunks1 == IF close THEN Append(chunks, current_chunk) ELSE chunks
             chunk1 == IF close THEN carried ELSE current_chunk
             size1 == IF close THEN SumLens(sents, carried) ELSE current_size
         IN  Pack(sents, Tail(todo), chunks1, Append(chunk1, todo[1]),
                  size1 + sentence_length + 1, chunk_size, overlap_sentences)

chunk_text_by_sentences(sents, chunk_size, overlap_sentences) ==
    Pack(sents, LongEnough(sents, 1), <<>>, <<>>, 0, chunk_size, overlap_sentences)

\* len(combined_text): the sentences of the section, one space between two
CombinedLen(sents) == JoinedLen(sents, [i \in 1..Len(sents) |-> i])

\* The chunks of one section with their metadata; chunk_index counts the
\* dropped chunks too (enumerate).
RECURSIVE Emit(_, _, _)
Emit(sents, chunks, i) ==
    IF i > Len(chunks) THEN <<>>
    ELSE (IF JoinedLen(sents, chunks[i]) < MIN_CHUNK_LEN THEN <<>>
          ELSE <<[content |-> chunks[i],
                  metadata |-> [section |-> SEC_RISK, chunk_index |-> i - 1]]>>)
         \o Emit(sents, chunks, i + 1)

chunk_sections(sents) ==
    IF CombinedLen(sents) < MIN_SECTION_LEN THEN <<>>
    ELSE Emit(sents, chunk_text_by_sentences(sents, CHUNK_SIZE, OVERLAP_SENTENCES), 1)

---------------------------------------------------------------------------
(* build_vectorstore.py: the manifests, the source files and the index *)

\* vectorstore = None, and a FAISS store holding docs in insertion order.
NoStore == [is_none |-> TRUE]
Store(docs) == [is_none |-> FALSE, docs |-> docs]

\* The manifests.  An entry is its table and its place in the table; the
\* tables of the source hold 10 and 5 entries, the model a prefix of each.
MaxPdfDocs == 2
MaxExcelDocs == 2
PDF_DOCUMENTS == [i \in 1..MaxPdfDocs |-> [kind |-> "pdf", place |-> i]]
EXCEL_DOCUMENTS == [i \in 1..MaxExcelDocs |-> [kind |-> "excel", place |-> i]]
Manifest == PDF_DOCUMENTS \o EXCEL_DOCUMENTS

\* What a source file holds: whether the path exists, whether opening it or
\* parsing it raises, and how many chunks it yields when neither does.
MissingFile == [exists |-> FALSE, fails |-> "", chunks |-> 0]
FailingFile(at) == [exists |-> TRUE, fails |-> at, chunks |-> 0]
GoodFile(n) == [exists |-> TRUE, fails |-> "", chunks |-> n]
ChunkCounts == {0, 1, 2}
FileStates ==
    {MissingFile, FailingFile("open"), FailingFile("parse")}
        \cup {GoodFile(n) : n \in ChunkCounts}

\* The body of the try block: extract_mda_sections and chunk_sections for a
\* PDF, ingest_excel for a workbook.  ingest_excel catches a failure to open
\* the workbook itself and returns [].
TryRaises(kind, file) ==
    \/ file.fails = "parse"
    \/ kind = "pdf" /\ file.fails = "open"

TryChunks(kind, file) == IF file.fails # "" THEN 0 ELSE file.chunks

\* The three `continue` branches of either loop.
IsSkipped(kind, file) ==
    \/ ~file.exists
    \/ TryRaises(kind, file)
    \/ TryChunks(kind, file) = 0

SkipCount_missing_uncounted(count, kind, file) ==
    IF file.exists /\ IsSkipped(kind, file) THEN count + 1 ELSE count

\* skipped += 1 on each of the three branches.
SkipCount(count, kind, file) ==
    IF IsSkipped(kind, file) THEN count + 1 ELSE count

\* texts and metadatas of the chunks of one manifest entry.
Batch(e, file) ==
    [k \in 1..TryChunks(Manifest[e].kind, file) |-> [source |-> Manifest[e], nth |-> k]]

InitialStore_loads_saved(saved) == saved

\* vectorstore = None at the start of a run, whatever is on disk.
InitialStore(saved) == NoStore

\* FAISS.from_texts when vectorstore is None, else vectorstore.add_texts.
AddBatch(store, texts) ==
    IF store.is_none THEN Store(texts) ELSE Store(store.docs \o texts)

---------------------------------------------------------------------------
(* ingest_excel.py: formatting of numbers *)

\* A cell value: None, a number, or something float() rejects.  Numbers are
\* held in hundredths: Num(50000) is 500.00.
NoValue == [kind |-> "none"]
Num(h) == [kind |-> "number", h |-> h]
NotNumeric(text) == [kind |-> "text", text |-> text]

Abs(n) == IF n < 0 THEN -n ELSE n

DigitChars == <<"0", "1", "2", "3", "4", "5", "6", "7", "8", "9">>

RECURSIVE Digits(_)
\* str(n) of a non-negative integer
Digits(n) ==
    IF n < 10 THEN <<DigitChars[n + 1]>>
    ELSE Digits(n \div 10) \o <<DigitChars[(n % 10) + 1]>>

\* the digits of n, zero-padded to width 2 and to width 3
TwoDigits(n) == <<DigitChars[(n \div 10) + 1], DigitChars[(n % 10) + 1]>>
ThreeDigits(n) == <<DigitChars[(n \div 100) + 1]>> \o TwoDigits(n % 100)

RECURSIVE Grouped(_)
\* the "," option of the format specification: groups of three digits
Grouped(n) ==
    IF n < 1000 THEN Digits(n)
    ELSE Grouped(n \div 1000) \o <<",">> \o ThreeDigits(n % 1000)

\* round(n / d) as the format specification .0f rounds: ties go to even
RoundHalfEven(n, d) ==
    LET q == n \div d
        r == n % d
    IN  IF 2 * r < d THEN q
        ELSE IF 2 * r > d THEN q + 1
        ELSE IF q % 2 = 0 THEN q ELSE q + 1

SignText(h) == IF h < 0 THEN <<"-">> ELSE <<>>

\* The three characters the source file holds before the amount, written by
\* their code points, and the unit that follows it.
CURRENCY_PREFIX == <<"U+00E2", "U+201A", "U+00B9">>
CRORE == <<" ", "c", "r", "o", "r", "e">>
N_A == <<"N", "/", "A">>

\* abs(val) >= 100000, val in hundredths
CRORE_SCALING_FROM == 10000000
\* val / 100, val in hundredths
SCALED_UNIT == 10000
HUNDREDTHS == 100

\* None gives "N/A"; what float() rejects is returned as str(val).
fmt_num(val) ==
    IF val.kind = "none" THEN N_A
    ELSE IF val.kind = "text" THEN val.text
    ELSE IF Abs(val.h) >= CRORE_SCALING_FROM
    THEN CURRENCY_PREFIX \o SignText(val.h)
            \o Digits(RoundHalfEven(Abs(val.h), SCALED_UNIT)) \o CRORE
    ELSE CURRENCY_PREFIX \o SignText(val.h) \o Grouped(Abs(val.h) \div HUNDREDTHS)
            \o <<".">> \o TwoDigits(Abs(val.h) % HUNDREDTHS) \o CRORE

---------------------------------------------------------------------------
(* ingest_excel.py: fmt_date and parse_data_sheet *)

\* A cell that holds a datetime; only its year and month are read.
DateCell(year, month) == [kind |-> "date", year |-> year, month |-> month]
TextCell(text) == NotNumeric(text)

\* `if val`: None, the empty string and 0 are false.
TruthyCell(val) ==
    /\ val.kind # "none"
    /\ val.kind = "text" => val.text # <<>>
    /\ val.kind = "number" => val.h # 0

\* str(val) of a text and of a whole number; the cells that reach str() in
\* the model are texts and whole numbers.
StrOfCell(val) ==
    IF val.kind = "text" THEN val.text
    ELSE SignText(val.h) \o Digits(Abs(val.h) \div HUNDREDTHS)

\* str(year)[2:]
YearSuffix(year) == SubSeq(Digits(year), 3, Len(Digits(year)))

\* f"FY{a}-{str(b)[2:]}"
FiscalLabel(a, b) == <<"F", "Y">> \o Digits(a) \o <<"-">> \o YearSuffix(b)

\* quarter_map
QUARTER_MAP == (6 :> <<"Q", "1">>) @@ (9 :> <<"Q", "2">>) @@ (12 :> <<"Q", "3">>)

fmt_date(val) ==
    IF val.kind = "date"
    THEN IF val.month = 3 THEN FiscalLabel(val.year - 1, val.year)
         ELSE IF val.month \in {6, 9, 12}
         THEN IF val.month # 12
              THEN QUARTER_MAP[val.month] \o <<" ">> \o FiscalLabel(val.year - 1, val.year)
              ELSE <<"Q", "3", " ">> \o FiscalLabel(val.year, val.year + 1)
         ELSE Digits(val.year)
    ELSE IF TruthyCell(val) THEN StrOfCell(val) ELSE <<>>

\* str.upper() on one character, and on a text
UpperChar(c) ==
    IF \E u \in DOMAIN UpperToLower : UpperToLower[u] = c
    THEN CHOOSE u \in DOMAIN UpperToLower : UpperToLower[u] = c
    ELSE c

Upper(s) == [i \in 1..Len(s) |-> UpperChar(s[i])]

\* section_map
SECTION_MAP ==
    << [header |-> <<"P","R","O","F","I","T"," ","&"," ","L","O","S","S">>, key |-> "pl"],
       [header |-> <<"Q","U","A","R","T","E","R","S">>, key |-> "quarters"],
       [header |-> <<"B","A","L","A","N","C","E"," ","S","H","E","E","T">>, key |-> "bs"],
       [header |-> <<"C","A","S","H"," ","F","L","O","W",":">>, key |-> "cf"] >>

LABEL_COMPANY_NAME == <<"C","O","M","P","A","N","Y"," ","N","A","M","E">>
LABEL_CURRENT_PRICE == <<"C","u","r","r","e","n","t"," ","P","r","i","c","e">>
LABEL_MARKET_CAP ==
    <<"M","a","r","k","e","t"," ","C","a","p","i","t","a","l","i","z","a","t","i","o","n">>
LABEL_REPORT_DATE == <<"R","e","p","o","r","t"," ","D","a","t","e">>

\* ["META", "DERIVED:", "PRICE:"]
SKIPPED_LABELS ==
    { <<"M","E","T","A">>, <<"D","E","R","I","V","E","D",":">>, <<"P","R","I","C","E",":">> }

\* The header test without upper(): only a label in capitals is a header.
IsSectionHeader_exact(label) ==
    \E i \in 1..Len(SECTION_MAP) : SECTION_MAP[i].header = label

\* label.upper() in section_map
IsSectionHeader(label) ==
    \E i \in 1..Len(SECTION_MAP) : SECTION_MAP[i].header = Upper(label)

\* section_map[label.upper()]
SectionKey(label) ==
    SECTION_MAP[CHOOSE i \in 1..Len(SECTION_MAP) : SECTION_MAP[i].header = Upper(label)].key

\* d[k] = v on a dict
DictPut(d, k, v) == [x \in (DOMAIN d) \cup {k} |-> IF x = k THEN v ELSE d[x]]

EmptyDict == [x \in {} |-> NoValue]

\* [fmt_date(v) for v in values if v is not None]
RECURSIVE DatesOf(_)
DatesOf(values) ==
    IF values = <<>> THEN <<>>
    ELSE (IF values[1].kind = "none" THEN <<>> ELSE <<fmt_date(values[1])>>)
         \o DatesOf(Tail(values))

\* The dict data before the first row; current_section None is "".
InitialData ==
    [meta |-> EmptyDict,
     pl |-> [dates |-> <<>>, rows |-> EmptyDict],
     quarters |-> [dates |-> <<>>, rows |-> EmptyDict],
     bs |-> [dates |-> <<>>, rows |-> EmptyDict],
     cf |-> [dates |-> <<>>, rows |-> EmptyDict]]

\* The body of the loop over the rows: the locals after row, or the
\* IndexError of values[0] on a price row without a value cell.
ParseRow(st, row) ==
    LET label == IF TruthyCell(row[1]) THEN Strip(StrOfCell(row[1])) ELSE <<>>
        values == Tail(row)
    IN  IF st.raised \/ \A c \in 1..Len(row) : row[c].kind = "none" THEN st
        ELSE IF IsSectionHeader(label)
        THEN [st EXCEPT !.current_section = SectionKey(label)]
        ELSE IF label = LABEL_COMPANY_NAME
        THEN [st EXCEPT !.data.meta =
                 DictPut(@, "company", IF values # <<>> THEN values[1] ELSE TextCell(<<>>))]
        ELSE IF label = LABEL_CURRENT_PRICE
        THEN IF values = <<>> THEN [st EXCEPT !.raised = TRUE]
             ELSE [st EXCEPT !.data.meta = DictPut(@, "current_price", values[1])]
        ELSE IF label = LABEL_MARKET_CAP
        THEN IF values = <<>> THEN [st EXCEPT !.raised = TRUE]
             ELSE [st EXCEPT !.data.meta = DictPut(@, "market_cap", values[1])]
        ELSE IF label = LABEL_REPORT_DATE /\ st.current_section # ""
        THEN [st EXCEPT !.data[st.current_section].dates = DatesOf(values)]
        ELSE IF st.current_section # "" /\ label # <<>> /\ label \notin SKIPPED_LABELS
        THEN [st EXCEPT !.data[st.current_section].rows = DictPut(@, label, values)]
        ELSE st

RECURSIVE ParseRows(_, _)
ParseRows(st, rows) ==
    IF rows = <<>> THEN st ELSE ParseRows(ParseRow(st, rows[1]), Tail(rows))

\* What parse_data_sheet returns for the rows of a sheet, or that it raised.
parse_data_sheet(rows) ==
    LET end == ParseRows([current_section |-> "", data |-> InitialData, raised |-> FALSE], rows)
    IN  IF end.raised THEN [raised |-> TRUE] ELSE [raised |-> FALSE, data |-> end.data]

---------------------------------------------------------------------------
(* ingest_excel.py: the chunks generated from a parsed Data Sheet *)

\* pct_change: "" when old is None or 0, else the direction and the
\* percentage, to one decimal, of the change against abs(old).
PER_MILLE == 1000

pct_change(new, old) ==
    IF old.kind = "none" \/ old.h = 0 THEN [shown |-> FALSE]
    ELSE [shown |-> TRUE,
          direction |-> IF new.h - old.h >= 0 THEN "up" ELSE "down",
          tenths |-> RoundHalfEven(Abs(new.h - old.h) * PER_MILLE, Abs(old.h))]

\* Python's truth of a cell value.
TruthyValue(v) == v.kind # "none" /\ v.h # 0

\* seq[idx:] for a 0-based idx, negative idx counting from the end.
PyFrom(seq, idx) ==
    LET start == IF idx < 0
                 THEN (IF Len(seq) + idx < 0 THEN 0 ELSE Len(seq) + idx)
                 ELSE (IF idx > Len(seq) THEN Len(seq) ELSE idx)
    IN  SubSeq(seq, start + 1, Len(seq))

\* seq[idx] for a 0-based idx: IndexError outside -len .. len - 1.
PyAtRaises(seq, idx) == idx >= Len(seq) \/ idx < -Len(seq)
PyAt(seq, idx) == IF idx < 0 THEN seq[Len(seq) + idx + 1] ELSE seq[idx + 1]

RECURSIVE NotNone(_)
\* [v for v in vals if v is not None]
NotNone(vals) ==
    IF vals = <<>> THEN <<>>
    ELSE (IF vals[1].kind = "none" THEN <<>> ELSE <<vals[1]>>) \o NotNone(Tail(vals))

\* zip(row_dates, vals): as long as the shorter of the two
Zip(row_dates, vals) ==
    [i \in 1..(IF Len(row_dates) < Len(vals) THEN Len(row_dates) ELSE Len(vals)) |->
        [label |-> row_dates[i], value |-> vals[i]]]

KEY_METRICS_PL ==
    <<"Sales", "Net profit", "Profit before tax", "Interest", "Employee Cost",
      "Depreciation", "Tax">>
KEY_METRICS_QUARTERLY ==
    <<"Sales", "Net profit", "Profit before tax", "Operating Profit", "Interest",
      "Expenses">>
HIGHLIGHT_METRICS == <<"Sales", "Net profit", "Operating Profit">>
KEY_METRICS_BS ==
    <<"Equity Share Capital", "Reserves", "Borrowings", "Total", "Investments",
      "Cash & Bank", "Other Assets", "Return on Equity", "Return on Capital Emp">>
KEY_METRICS_CF ==
    <<"Cash from Operating Activity", "Cash from Investing Activity",
      "Cash from Financing Activity", "Net Cash Flow">>

RECENT_YEARS == 5
RECENT_QUARTERS == 8
SAME_QUARTER_BACK == 5

Quarterly == <<"Q","u","a","r","t","e","r","l","y">>
SEC_QUARTERLY == <<"Q","u","a","r","t","e","r","l","y"," ","R","e","s","u","l","t","s">>
SEC_BS == <<"B","a","l","a","n","c","e"," ","S","h","e","e","t">>
SEC_CF == <<"C","a","s","h"," ","F","l","o","w">>

\* One metric line of a summary chunk: "{metric}: {d}: {fmt_num(v)} | ...",
\* and the change of the last value against the one before it where the
\* generator prints it.
SummaryLine(metric, rows, recent_dates, recent_idx, with_yoy) ==
    LET vals == NotNone(PyFrom(rows[metric], recent_idx))
        row_dates == PyFrom(recent_dates, -Len(vals))
        chg == IF with_yoy /\ Len(vals) >= 2
               THEN pct_change(vals[Len(vals)], vals[Len(vals) - 1])
               ELSE [shown |-> FALSE]
    IN  IF vals = <<>> THEN <<>>
        ELSE <<[metric |-> metric, pairs |-> Zip(row_dates, vals), yoy |-> chg,
                yoy_in |-> row_dates[Len(row_dates)]]>>

RECURSIVE SummaryLines(_, _, _, _, _)
\* the loop over key_metrics of a summary chunk
SummaryLines(metrics, rows, recent_dates, recent_idx, with_yoy) ==
    IF metrics = <<>> THEN <<>>
    ELSE (IF metrics[1] \in DOMAIN rows
          THEN SummaryLine(metrics[1], rows, recent_dates, recent_idx, with_yoy)
          ELSE <<>>)
         \o SummaryLines(Tail(metrics), rows, recent_dates, recent_idx, with_yoy)

\* The summary chunk filed under the last period it covers.
SummaryChunk_last_period(statement, recent_dates, lines, highlights, year, section) ==
    [content |-> [statement |-> statement, covered |-> recent_dates,
                  lines |-> lines, highlights |-> highlights],
     metadata |-> [year |-> recent_dates[Len(recent_dates)], section |-> section,
                   chunk_index |-> 0]]

SummaryChunk(statement, recent_dates, lines, highlights, year, section) ==
    [content |-> [statement |-> statement, covered |-> recent_dates,
                  lines |-> lines, highlights |-> highlights],
     metadata |-> [year |-> year, section |-> section, chunk_index |-> 0]]

\* Whether the per-year chunk of actual_idx raises IndexError: the first
\* subscript it evaluates is vals[actual_idx] of the first metric in rows.
PeriodRaises(rows, actual_idx) ==
    \E m \in DOMAIN rows :
        /\ \E k \in 1..Len(KEY_METRICS_PL) : KEY_METRICS_PL[k] = m
        /\ PyAtRaises(rows[m], actual_idx) /\ actual_idx < Len(rows[m])

RECURSIVE PeriodLines(_, _, _)
\* the loop over key_metrics of a per-year chunk
PeriodLines(metrics, rows, actual_idx) ==
    IF metrics = <<>> THEN <<>>
    ELSE (IF metrics[1] \notin DOMAIN rows THEN <<>>
          ELSE LET vals == rows[metrics[1]] IN
               IF actual_idx >= Len(vals) THEN <<>>
               ELSE IF PyAt(vals, actual_idx).kind = "none" THEN <<>>
               ELSE LET val == PyAt(vals, actual_idx)
                        prev_val == IF actual_idx > 0 THEN PyAt(vals, actual_idx - 1)
                                    ELSE NoValue
                    IN  <<[metric |-> metrics[1], value |-> val,
                           chg |-> IF TruthyValue(prev_val) THEN pct_change(val, prev_val)
                                   ELSE [shown |-> FALSE]]>>)
         \o PeriodLines(Tail(metrics), rows, actual_idx)

\* "Net Profit Margin": net / sales * 100 of the same subscript, 0 when the
\* net profit is None or 0; no line when the sales value is None or 0.
MarginLine(rows, actual_idx) ==
    IF "Sales" \in DOMAIN rows /\ "Net profit" \in DOMAIN rows
       /\ actual_idx < Len(rows["Sales"])
       /\ TruthyValue(PyAt(rows["Sales"], actual_idx))
    THEN <<[net |-> PyAt(rows["Net profit"], actual_idx),
            sales |-> PyAt(rows["Sales"], actual_idx)]>>
    ELSE <<>>

PeriodChunk(date, rows, actual_idx, i) ==
    [content |-> [period |-> date,
                  lines |-> PeriodLines(KEY_METRICS_PL, rows, actual_idx),
                  margin |-> MarginLine(rows, actual_idx)],
     metadata |-> [year |-> date, section |-> SEC_PNL, chunk_index |-> i + 1]]

\* generate_pl_chunks: the summary chunk, then one chunk per recent date.
generate_pl_chunks(pl, recent_years) ==
    LET dates == pl.dates
        rows == pl.rows
        recent_dates == PyFrom(dates, -recent_years)
        recent_idx == Len(dates) - recent_years
    IN  IF dates = <<>> THEN [raised |-> "", chunks |-> <<>>]
        ELSE IF \E i \in 0..(Len(recent_dates) - 1) : PeriodRaises(rows, recent_idx + i)
        THEN [raised |-> "IndexError", chunks |-> <<>>]
        ELSE [raised |-> "",
              chunks |->
                <<SummaryChunk("pl", recent_dates,
                               SummaryLines(KEY_METRICS_PL, rows, recent_dates, recent_idx, TRUE),
                               <<>>, Multi_Year, SEC_PNL)>>
                \o [k \in 1..Len(recent_dates) |->
                        PeriodChunk(recent_dates[k], rows, recent_idx + k - 1, k - 1)]]

RECURSIVE Highlights(_, _)
\* "Latest Quarter" lines: the last value of the row, and its change against
\* the value four quarters before it.
Highlights(metrics, rows) ==
    IF metrics = <<>> THEN <<>>
    ELSE (IF metrics[1] \in DOMAIN rows /\ rows[metrics[1]] # <<>>
             /\ PyAt(rows[metrics[1]], -1).kind # "none"
          THEN LET vals == rows[metrics[1]]
                   prev == IF Len(vals) >= SAME_QUARTER_BACK
                           THEN PyAt(vals, -SAME_QUARTER_BACK) ELSE NoValue
               IN  <<[metric |-> metrics[1], value |-> PyAt(vals, -1),
                      chg |-> IF TruthyValue(prev) THEN pct_change(PyAt(vals, -1), prev)
                              ELSE [shown |-> FALSE]]>>
          ELSE <<>>)
         \o Highlights(Tail(metrics), rows)

generate_quarterly_chunks(q) ==
    LET dates == q.dates
        rows == q.rows
        recent_dates == PyFrom(dates, -RECENT_QUARTERS)
        recent_idx == IF Len(dates) - RECENT_QUARTERS > 0
                      THEN Len(dates) - RECENT_QUARTERS ELSE 0
    IN  IF dates = <<>> THEN <<>>
        ELSE <<SummaryChunk("quarters", recent_dates,
                            SummaryLines(KEY_METRICS_QUARTERLY, rows, recent_dates, recent_idx, FALSE),
                            Highlights(HIGHLIGHT_METRICS, rows), Quarterly, SEC_QUARTERLY)>>

generate_bs_chunks(bs, recent_years) ==
    LET dates == bs.dates
        rows == bs.rows
        recent_dates == PyFrom(dates, -recent_years)
        recent_idx == Len(dates) - recent_years
    IN  IF dates = <<>> THEN <<>>
        ELSE <<SummaryChunk("bs", recent_dates,
                            SummaryLines(KEY_METRICS_BS, rows, recent_dates, recent_idx, TRUE),
                            <<>>, Multi_Year, SEC_BS)>>

generate_cf_chunks(cf, recent_years) ==
    LET dates == cf.dates
        rows == cf.rows
        recent_dates == PyFrom(dates, -recent_years)
        recent_idx == Len(dates) - recent_years
    IN  IF dates = <<>> THEN <<>>
        ELSE <<SummaryChunk("cf", recent_dates,
                            SummaryLines(KEY_METRICS_CF, rows, recent_dates, recent_idx, FALSE),
                            <<>>, Multi_Year, SEC_CF)>>

\* ingest_excel on a workbook that opens and has a Data Sheet: the chunks of
\* the four generators in order, or the exception of generate_pl_chunks.
ingest_excel(parsed) ==
    LET pl_chunks == generate_pl_chunks(parsed.pl, RECENT_YEARS)
    IN  IF pl_chunks.raised # "" THEN [raised |-> pl_chunks.raised, chunks |-> <<>>]
        ELSE [raised |-> "",
              chunks |-> pl_chunks.chunks
                         \o generate_quarterly_chunks(parsed.quarters)
                         \o generate_bs_chunks(parsed.bs, RECENT_YEARS)
                         \o generate_cf_chunks(parsed.cf, RECENT_YEARS)]

---------------------------------------------------------------------------
(* Idle values of the parts *)

Idle == [op |-> "none"]

AnalyzerIdle ==
    /\ aquery = <<>>
    /\ aintent = Pending
    /\ ayear = Pending
    /\ acompany = Pending

PipelineIdle ==
    /\ pc = "idle"
    /\ req = Idle
    /\ ctx = Idle
    /\ result = Idle
    /\ gen_calls = 0
    /\ cards = <<>>
    /\ vs = LoadedIndex
    /\ query_count = 0

ChunkerIdle ==
    /\ sentences = <<>>
    /\ text_chunks = Pending
    /\ chunks_out = Pending

BuildIdle ==
    /\ files = <<>>
    /\ saved_index = NoStore
    /\ bpc = "idle"
    /\ entry = 0
    /\ vectorstore_local = NoStore
    /\ total_chunks = 0
    /\ pdf_processed = 0
    /\ excel_processed = 0
    /\ skipped = 0
    /\ saves = 0
    /\ runs = 0

\* A statement without dates and rows, and a Data Sheet with none.
EmptyStatement == [dates |-> <<>>, rows |-> <<>>]
EmptyWorkbook ==
    [pl |-> EmptyStatement, quarters |-> EmptyStatement,
     bs |-> EmptyStatement, cf |-> EmptyStatement]

ExcelIdle ==
    /\ num_in = NoValue
    /\ num_out = Pending
    /\ data = EmptyWorkbook
    /\ excel_out = Pending

MdaIdle ==
    /\ pdf_pages = <<>>
    /\ mpc = "idle"
    /\ current_section = MDA_GENERAL
    /\ extracted = EmptySections
    /\ sections_out = Pending

ParseIdle ==
    /\ split_in = <<>>
    /\ split_out = Pending
    /\ ws = <<>>
    /\ parsed_sheet = Pending
    /\ date_in = NoValue
    /\ date_out = Pending

IngestIdle == BuildIdle /\ ExcelIdle /\ MdaIdle /\ ParseIdle

---------------------------------------------------------------------------
(* The pipeline: calls of retrieve_and_answer and of generate_answer *)

MaxTopK == 2
MaxErrWords == 2
MaxQueries == 2

PipelineQueries ==
    { <<"I","C","I","C","I"," ","B","a","n","k"," ","r","i","s","k","s">>,
      <<"W","h","a","t"," ","w","a","s"," ","T","C","S"," ","p","e","r","f","o","r","m","a","n","c","e"," ","i","n"," ","F","Y","2","5","?">>,
      <<"o","u","t","l","o","o","k"," ","f","o","r"," ","2","0","2","4","-","2","5">>,
      <<"h","e","l","l","o">> }

BLANK == <<" ", " ">>
CompanyFilters == {None, ICICI_Bank, TCS, BLANK}
YearFilters == {None, FY2023_24, FY2024_25}
TopKs == 1..MaxTopK

SOME_KEY == <<"g","s","k">>
ApiKeys == {None, <<>>, SOME_KEY}

ERR_RATE == <<"r","a","t","e","_","l","i","m","i","t"," ","e","x","c","e","e","d","e","d">>
ERR_TIMEOUT == <<"t","i","m","e","o","u","t">>

\* What the pipeline's generation call can do.
PipelineGens ==
    {GenOutcome(SOME_KEY, "", <<>>), GenOutcome(None, "", <<>>),
     GenOutcome(SOME_KEY, "create", ERR_RATE), GenOutcome(SOME_KEY, "create", ERR_TIMEOUT)}

ErrFragments ==
    { <<"I","n","v","a","l","i","d"," ","A","P","I","_","K","E","Y">>,
      <<"A","u","t","h","e","n","t","i","c","a","t","i","o","n"," ","f","a","i","l","e","d">>,
      <<" ","r","a","t","e","_","l","i","m","i","t"," ","e","x","c","e","e","d","e","d">>,
      <<"t","i","m","e","o","u","t">>,
      <<"r","a","t","e","_">> }

ErrMessages == TextsOf(ErrFragments, MaxErrWords)

\* What a direct call of generate_answer can meet.
DirectGens ==
    {GenOutcome(k, "", <<>>) : k \in ApiKeys}
    \cup {GenOutcome(k, at, e) : k \in ApiKeys, at \in {"client", "create"}, e \in ErrMessages}

SOME_CHUNK == [id |-> 2, len |-> 400]

\* A caller (process_query, the command line) calls retrieve_and_answer.
CallRetrieveAndAnswer ==
    /\ pc = "idle"
    /\ query_count < MaxQueries
    /\ query_count' = query_count + 1
    /\ \E query \in PipelineQueries, company_filter \in CompanyFilters,
          year_filter \in YearFilters, top_k \in TopKs :
            req' = [op |-> "retrieve_and_answer", query |-> query,
                    company_filter |-> company_filter, year_filter |-> year_filter,
                    top_k |-> top_k, score_threshold |-> SCORE_THRESHOLD]
    /\ pc' = "retrieve"
    /\ UNCHANGED <<ctx, result, gen_calls, cards, vs, analyzerVars, chunkerVars, ingestVars>>

\* retrieve_and_answer runs retrieve_context; an exception of it is not caught.
RetrieveContext ==
    /\ pc = "retrieve"
    /\ \E outcome \in SearchOutcomes(req.top_k) :
          LET rc == retrieve_context(vs, req.query, req.company_filter,
                                     req.year_filter, req.top_k,
                                     req.score_threshold, outcome)
          IN  /\ ctx' = rc
              /\ vs' = AfterSearches(vs, SearchCalls(req.top_k, outcome))
              /\ IF rc.raised # ""
                 THEN /\ pc' = "raised"
                      /\ result' = [exception |-> rc.raised]
                 ELSE /\ pc' = "compose"
                      /\ result' = result
    /\ UNCHANGED <<req, gen_calls, cards, query_count, analyzerVars, chunkerVars, ingestVars>>

\* retrieve_and_answer builds its result, calling generate_answer when there
\* are chunks.
Compose ==
    /\ pc = "compose"
    /\ \E gen \in PipelineGens :
          LET r == ResultOf(req.query, ctx, gen)
          IN  /\ result' = r.value
              /\ gen_calls' = r.calls
    /\ pc' = "returned"
    /\ UNCHANGED <<req, ctx, cards, vs, query_count, analyzerVars, chunkerVars, ingestVars>>

\* process_query's except branch: the host turns the exception into a result.
ProcessQueryExcept ==
    /\ pc = "raised"
    /\ result' = [answer |-> [text |-> "Error: ", err |-> <<>>],
                  sources |-> <<>>,
                  intent |-> "general",
                  company |-> OrElse(req.company_filter, <<"U","n","k","n","o","w","n">>),
                  year |-> OrElse(req.year_filter, ALL_YEARS)]
    /\ pc' = "caught"
    /\ UNCHANGED <<req, ctx, gen_calls, cards, vs, query_count, analyzerVars, chunkerVars, ingestVars>>

\* show_main_app renders the source cards of the assistant message.
ShowSources ==
    /\ pc \in {"returned", "caught"}
    /\ cards' = SourceCards(result.sources, {})
    /\ pc' = "shown"
    /\ UNCHANGED <<req, ctx, result, gen_calls, vs, query_count, analyzerVars, chunkerVars, ingestVars>>

\* A caller calls generate_answer itself.
CallGenerateAnswer ==
    /\ pc = "idle"
    /\ \E chunks \in {<<>>, <<SOME_CHUNK>>}, intent \in Intents,
          company_name \in {None, ICICI_Bank}, year_filter \in {None, FY2024_25},
          gen \in DirectGens :
            LET g == generate_answer(<<>>, chunks, intent, company_name, year_filter, gen)
            IN  /\ req' = [op |-> "generate_answer", chunks |-> chunks,
                           intent |-> intent, company_name |-> company_name,
                           year_filter |-> year_filter, gen |-> gen]
                /\ result' = g.answer
                /\ gen_calls' = g.calls
    /\ pc' = "composed"
    /\ UNCHANGED <<ctx, cards, vs, query_count, analyzerVars, chunkerVars, ingestVars>>

\* The call is over; the next one starts from the same loaded index.
NextCall ==
    /\ pc \in {"shown", "composed"}
    /\ pc' = "idle"
    /\ req' = Idle
    /\ ctx' = Idle
    /\ result' = Idle
    /\ gen_calls' = 0
    /\ cards' = <<>>
    /\ UNCHANGED <<vs, query_count, analyzerVars, chunkerVars, ingestVars>>

Init == PipelineIdle /\ AnalyzerIdle /\ ChunkerIdle /\ IngestIdle

Next ==
    \/ CallRetrieveAndAnswer
    \/ RetrieveContext
    \/ Compose
    \/ ProcessQueryExcept
    \/ ShowSources
    \/ CallGenerateAnswer
    \/ NextCall

Spec == Init /\ [][Next]_vars

---------------------------------------------------------------------------
(* The analyzers applied to a query *)

InitAnalyzer ==
    /\ aquery \in Queries
    /\ aintent = Pending
    /\ ayear = Pending
    /\ acompany = Pending
    /\ PipelineIdle
    /\ ChunkerIdle
    /\ IngestIdle

DetectIntent ==
    /\ ~aintent.done
    /\ aintent' = Returned(detect_intent(aquery))
    /\ UNCHANGED <<aquery, ayear, acompany, pipelineVars, chunkerVars, ingestVars>>

ExtractYear ==
    /\ ~ayear.done
    /\ ayear' = Returned(extract_year(aquery))
    /\ UNCHANGED <<aquery, aintent, acompany, pipelineVars, chunkerVars, ingestVars>>

ExtractCompany ==
    /\ ~acompany.done
    /\ acompany' = Returned(extract_company(aquery))
    /\ UNCHANGED <<aquery, aintent, ayear, pipelineVars, chunkerVars, ingestVars>>

NextAnalyzer == DetectIntent \/ ExtractYear \/ ExtractCompany

SpecAnalyzer == InitAnalyzer /\ [][NextAnalyzer]_vars

---------------------------------------------------------------------------
(* The chunker applied to a section *)

MaxSentences == 5
SentenceLens == {5, 20, 50, 140, 950, 1200}

InitChunker ==
    /\ sentences \in UNION {[1..n -> SentenceLens] : n \in 0..MaxSentences}
    /\ text_chunks = Pending
    /\ chunks_out = Pending
    /\ PipelineIdle
    /\ AnalyzerIdle
    /\ IngestIdle

ChunkTextBySentences ==
    /\ ~text_chunks.done
    /\ text_chunks' = Returned(chunk_text_by_sentences(sentences, CHUNK_SIZE, OVERLAP_SENTENCES))
    /\ UNCHANGED <<sentences, chunks_out, pipelineVars, analyzerVars, ingestVars>>

ChunkSections ==
    /\ ~chunks_out.done
    /\ chunks_out' = Returned(chunk_sections(sentences))
    /\ UNCHANGED <<sentences, text_chunks, pipelineVars, analyzerVars, ingestVars>>

NextChunker == ChunkTextBySentences \/ ChunkSections

SpecChunker == InitChunker /\ [][NextChunker]_vars

---------------------------------------------------------------------------
(* Runs of build_vectorstore over the source files *)

MaxRuns == 2

InitBuild ==
    /\ files \in [1..Len(Manifest) -> FileStates]
    /\ saved_index = NoStore
    /\ bpc = "idle"
    /\ entry = 0
    /\ vectorstore_local = NoStore
    /\ total_chunks = 0
    /\ pdf_processed = 0
    /\ excel_processed = 0
    /\ skipped = 0
    /\ saves = 0
    /\ runs = 0
    /\ PipelineIdle
    /\ AnalyzerIdle
    /\ ChunkerIdle
    /\ ExcelIdle
    /\ MdaIdle
    /\ ParseIdle

\* A run starts: the locals are initialised.
StartBuild ==
    /\ bpc \in {"idle", "done", "raised"}
    /\ runs < MaxRuns
    /\ runs' = runs + 1
    /\ bpc' = "ingest"
    /\ entry' = 1
    /\ vectorstore_local' = InitialStore(saved_index)
    /\ total_chunks' = 0
    /\ pdf_processed' = 0
    /\ excel_processed' = 0
    /\ skipped' = 0
    /\ saves' = 0
    /\ UNCHANGED <<files, saved_index, pipelineVars, analyzerVars, chunkerVars, excelVars, mdaVars, parseVars>>

\* One iteration of the loop over PDF_DOCUMENTS.  The embedding calls are
\* outside the try block: when one raises, the run ends with the exception.
IngestPdf ==
    /\ bpc = "ingest"
    /\ entry <= Len(PDF_DOCUMENTS)
    /\ LET file == files[entry]
       IN  IF IsSkipped("pdf", file)
           THEN /\ skipped' = SkipCount(skipped, "pdf", file)
                /\ entry' = entry + 1
                /\ UNCHANGED <<bpc, vectorstore_local, total_chunks, pdf_processed>>
           ELSE \E embed_ok \in BOOLEAN :
                /\ total_chunks' = total_chunks + Len(Batch(entry, file))
                /\ pdf_processed' = pdf_processed + 1
                /\ skipped' = skipped
                /\ IF embed_ok
                   THEN /\ vectorstore_local' = AddBatch(vectorstore_local, Batch(entry, file))
                        /\ entry' = entry + 1
                        /\ bpc' = bpc
                   ELSE /\ bpc' = "raised"
                        /\ UNCHANGED <<vectorstore_local, entry>>
    /\ UNCHANGED <<files, saved_index, excel_processed, saves, runs,
                   pipelineVars, analyzerVars, chunkerVars, excelVars, mdaVars, parseVars>>

\* One iteration of the loop over EXCEL_DOCUMENTS.
IngestExcel ==
    /\ bpc = "ingest"
    /\ entry > Len(PDF_DOCUMENTS)
    /\ entry <= Len(Manifest)
    /\ LET file == files[entry]
       IN  IF IsSkipped("excel", file)
           THEN /\ skipped' = SkipCount(skipped, "excel", file)
                /\ entry' = entry + 1
                /\ UNCHANGED <<bpc, vectorstore_local, total_chunks, excel_processed>>
           ELSE \E embed_ok \in BOOLEAN :
                /\ total_chunks' = total_chunks + Len(Batch(entry, file))
                /\ excel_processed' = excel_processed + 1
                /\ skipped' = skipped
                /\ IF embed_ok
                   THEN /\ vectorstore_local' = AddBatch(vectorstore_local, Batch(entry, file))
                        /\ entry' = entry + 1
                        /\ bpc' = bpc
                   ELSE /\ bpc' = "raised"
                        /\ UNCHANGED <<vectorstore_local, entry>>
    /\ UNCHANGED <<files, saved_index, pdf_processed, saves, runs,
                   pipelineVars, analyzerVars, chunkerVars, excelVars, mdaVars, parseVars>>

\* After both loops: return without saving when nothing was indexed, else
\* save_local, which replaces what VECTORSTORE_DIR held.
SaveIndex ==
    /\ bpc = "ingest"
    /\ entry > Len(Manifest)
    /\ bpc' = "done"
    /\ IF vectorstore_local.is_none
       THEN UNCHANGED <<saved_index, saves>>
       ELSE /\ saved_index' = vectorstore_local
            /\ saves' = saves + 1
    /\ UNCHANGED <<files, entry, vectorstore_local, total_chunks, pdf_processed,
                   excel_processed, skipped, runs,
                   pipelineVars, analyzerVars, chunkerVars, excelVars, mdaVars, parseVars>>

NextBuild == StartBuild \/ IngestPdf \/ IngestExcel \/ SaveIndex

SpecBuild == InitBuild /\ [][NextBuild]_vars

---------------------------------------------------------------------------
(* fmt_num applied to a value, ingest_excel applied to a parsed workbook *)

MaxYears == 6
MaxQuarters == 9

\* Amounts in hundredths: whole amounts around the scaling limit, with and
\* without a fraction, of either sign.
WholeAmounts == {0, 5, 500, 5000, 99999, 100000, 100050, 100150, 150000, 1234567}
Fractions == {0, 1, 50, 99}
NumInputs ==
    {NoValue, NotNumeric(<<"n", ".", "a", ".">>)}
        \cup {Num(sign * (HUNDREDTHS * w + f)) :
                 sign \in {1, -1}, w \in WholeAmounts, f \in Fractions}

\* The label fmt_date gives the March date that ends the p-th fiscal year on
\* the sheet: FY2016-17 for the first, FY2024-25 for the ninth.
PeriodLabel(p) == <<"F", "Y">> \o Digits(2015 + p) \o <<"-">> \o TwoDigits(16 + p)

Dates(n) == [p \in 1..n |-> PeriodLabel(p)]

\* The amount in cell p of row k of a statement; it differs from cell to cell.
CellValue(k, p) == Num(HUNDREDTHS * (HUNDREDTHS * k + p))

\* Row k of a sheet with n dates: the cells of filled hold amounts, the other
\* cells under a date are empty, and pad empty cells follow them.
RowWith(k, n, pad, filled) ==
    [p \in 1..(n + pad) |-> IF p \in filled THEN CellValue(k, p) ELSE NoValue]

\* The rows a sheet can hold for row k: every cell under a date filled or empty.
RowsOf(k, n, pad) == {RowWith(k, n, pad, filled) : filled \in SUBSET (1..n)}

\* The Net profit rows: filled under every date, or under all but the last.
NetProfitRows(n, pad) == {RowWith(2, n, pad, 1..n), RowWith(2, n, pad, 1..(n - 1))}

Pads == {0, 1}

PlStatements ==
    UNION {{[dates |-> Dates(n),
             rows |-> [m \in {"Sales", "Net profit"} |-> IF m = "Sales" THEN sales ELSE net]] :
               sales \in RowsOf(1, n, pad), net \in NetProfitRows(n, pad)} :
           n \in 0..MaxYears, pad \in Pads}

OneRowStatements(metric, most) ==
    UNION {{[dates |-> Dates(n), rows |-> [m \in {metric} |-> row]] :
               row \in RowsOf(1, n, pad)} :
           n \in 0..most, pad \in Pads}

Workbooks ==
    {[EmptyWorkbook EXCEPT !.pl = st] : st \in PlStatements}
    \cup {[EmptyWorkbook EXCEPT !.quarters = st] : st \in OneRowStatements("Sales", MaxQuarters)}
    \cup {[EmptyWorkbook EXCEPT !.bs = st] : st \in OneRowStatements("Reserves", MaxYears)}
    \cup {[EmptyWorkbook EXCEPT !.cf = st] : st \in OneRowStatements("Net Cash Flow", MaxYears)}

InitExcel ==
    /\ \/ num_in \in NumInputs /\ data = EmptyWorkbook
       \/ num_in = NoValue /\ data \in Workbooks
    /\ num_out = Pending
    /\ excel_out = Pending
    /\ PipelineIdle
    /\ AnalyzerIdle
    /\ ChunkerIdle
    /\ BuildIdle
    /\ MdaIdle
    /\ ParseIdle

FmtNum ==
    /\ ~num_out.done
    /\ num_out' = Returned(fmt_num(num_in))
    /\ UNCHANGED <<num_in, data, excel_out, pipelineVars, analyzerVars, chunkerVars, buildVars, mdaVars, parseVars>>

IngestWorkbook ==
    /\ ~excel_out.done
    /\ excel_out' = Returned(ingest_excel(data))
    /\ UNCHANGED <<num_in, num_out, data, pipelineVars, analyzerVars, chunkerVars, buildVars, mdaVars, parseVars>>

NextExcel == FmtNum \/ IngestWorkbook

SpecExcel == InitExcel /\ [][NextExcel]_vars

---------------------------------------------------------------------------
(* extract_mda_sections on one document, a line at a time *)

MaxPages == 3
MaxDocLines == 3

\* A phrase filled with dots up to n characters.
Padded(phrase, n) == phrase \o [i \in 1..(n - Len(phrase)) |-> "."]

PLAIN_TEXT       == <<"N","e","t"," ","i","n","c","o","m","e"," ","r","o","s","e">>
RISK_HEADING     == <<"R","i","s","k"," ","M","a","n","a","g","e","m","e","n","t">>
ECONOMIC_OUTLOOK == <<"E","c","o","n","o","m","i","c"," ","O","u","t","l","o","o","k">>
OUTLOOK_HEADING  == <<"O","u","t","l","o","o","k">>

\* The lines a page can hold: text without a keyword of 41, of 40 and (between
\* whitespace) of 39 characters, a short heading between whitespace, a line of
\* 41 characters with a keyword of two sections and a line of 40 characters
\* with a keyword.
Lines ==
    { Padded(PLAIN_TEXT, 41),
      Padded(PLAIN_TEXT, 40),
      <<" ", "\t">> \o Padded(PLAIN_TEXT, 39) \o <<" ", " ">>,
      <<" ">> \o RISK_HEADING \o <<" ">>,
      Padded(ECONOMIC_OUTLOOK, 41),
      Padded(OUTLOOK_HEADING, 40) }

\* ScanLine for every line of Lines and every value of current_section; what
\* it gives does not depend on where the line stands in the document.
LineScans ==
    [line \in Lines |->
        [current \in {SectionKeys[i] : i \in DOMAIN SectionKeys} |-> ScanLine(line, current)]]

\* enumerate(pdf.pages, start=1): the number of the page that was read last
page_num == Len(pdf_pages)

\* The lines read so far, over all pages.
RECURSIVE CountLines(_)
CountLines(pages) ==
    IF pages = <<>> THEN 0
    ELSE (IF pages[1].has_text THEN Len(pages[1].lines) ELSE 0) + CountLines(Tail(pages))

InitSections ==
    /\ pdf_pages = <<>>
    /\ mpc = "pages"
    /\ current_section = MDA_GENERAL
    /\ extracted = EmptySections
    /\ sections_out = Pending
    /\ PipelineIdle
    /\ AnalyzerIdle
    /\ ChunkerIdle
    /\ BuildIdle
    /\ ExcelIdle
    /\ ParseIdle

\* The next page has no text: continue.
SkipPage ==
    /\ mpc = "pages"
    /\ Len(pdf_pages) < MaxPages
    /\ pdf_pages' = Append(pdf_pages, NoTextPage)
    /\ UNCHANGED <<mpc, current_section, extracted, sections_out,
                   pipelineVars, analyzerVars, chunkerVars, buildVars, excelVars, parseVars>>

\* The next page has text: the loop over its lines starts.
OpenPage ==
    /\ mpc = "pages"
    /\ Len(pdf_pages) < MaxPages
    /\ CountLines(pdf_pages) < MaxDocLines
    /\ pdf_pages' = Append(pdf_pages, TextPage(<<>>))
    /\ mpc' = "lines"
    /\ UNCHANGED <<current_section, extracted, sections_out,
                   pipelineVars, analyzerVars, chunkerVars, buildVars, excelVars, parseVars>>

\* One pass of the loop over the lines of the page.
ReadLine ==
    /\ mpc = "lines"
    /\ CountLines(pdf_pages) < MaxDocLines
    /\ \E line \in Lines :
          LET scan == LineScans[line][current_section]
          IN  /\ pdf_pages' = [pdf_pages EXCEPT ![page_num].lines = Append(@, line)]
              /\ current_section' = scan.section
              /\ extracted' = AppendKept(scan.line_clean, scan.section, page_num, extracted)
    /\ UNCHANGED <<mpc, sections_out,
                   pipelineVars, analyzerVars, chunkerVars, buildVars, excelVars, parseVars>>

\* The lines of the page are exhausted; text.split("\n") gave at least one.
EndPage ==
    /\ mpc = "lines"
    /\ pdf_pages[page_num].lines # <<>>
    /\ mpc' = "pages"
    /\ UNCHANGED <<pdf_pages, current_section, extracted, sections_out,
                   pipelineVars, analyzerVars, chunkerVars, buildVars, excelVars, parseVars>>

\* The pages are exhausted: the sections without entries are dropped.
ReturnSections ==
    /\ mpc = "pages"
    /\ sections_out' = Returned(NonEmptySections(extracted))
    /\ mpc' = "done"
    /\ UNCHANGED <<pdf_pages, current_section, extracted,
                   pipelineVars, analyzerVars, chunkerVars, buildVars, excelVars, parseVars>>

NextSections == SkipPage \/ OpenPage \/ ReadLine \/ EndPage \/ ReturnSections

SpecSections == InitSections /\ [][NextSections]_vars

---------------------------------------------------------------------------
(* split_into_sentences applied to a text *)

MaxSplitWords == 4

\* The words of the texts: two protected abbreviations, a third with two
\* periods, words that end and that start a sentence, and plain words.
SplitWordSet ==
    { <<"D","r",".">>, <<"R","s",".">>, <<"e",".","g",".">>,
      <<"S","m","i","t","h">>, <<"l","e","f","t",".">>, <<"H","e">>,
      <<"p","a","i","d","!">> }

\* The texts: up to MaxSplitWords words with one space between two.
SplitTexts ==
    {JoinSpace(words) : words \in UNION {[1..k -> SplitWordSet] : k \in 0..MaxSplitWords}}

InitSplit ==
    /\ split_in \in SplitTexts
    /\ split_out = Pending
    /\ ws = <<>>
    /\ parsed_sheet = Pending
    /\ date_in = NoValue
    /\ date_out = Pending
    /\ PipelineIdle
    /\ AnalyzerIdle
    /\ ChunkerIdle
    /\ BuildIdle
    /\ ExcelIdle
    /\ MdaIdle

SplitIntoSentences ==
    /\ ~split_out.done
    /\ split_out' = Returned(split_into_sentences(split_in))
    /\ UNCHANGED <<split_in, ws, parsed_sheet, date_in, date_out, pipelineVars,
                   analyzerVars, chunkerVars, buildVars, excelVars, mdaVars>>

NextSplit == SplitIntoSentences

SpecSplit == InitSplit /\ [][NextSplit]_vars

---------------------------------------------------------------------------
(* parse_data_sheet applied to a sheet, fmt_date applied to a cell *)

MaxSheetRows == 3

\* The cells handed to fmt_date: the quarter ends and other months of some
\* years, a text, None and numbers.
DateYears == {1999, 2024, 2025, 2099}
DateMonths == {1, 3, 4, 6, 9, 12}
DateInputs ==
    {DateCell(y, m) : y \in DateYears, m \in DateMonths}
        \cup {NoValue, TextCell(<<"M","a","r","-","2","4">>), Num(0), Num(1200)}

LABEL_SALES == <<"S","a","l","e","s">>

\* The rows of a sheet: a header in mixed case between spaces and one in
\* capitals without further cells, a row of dates with a gap, a metric row,
\* price rows with and without a value cell, the company row without a value
\* cell, a row of empty cells, a row without label, and a skipped label.
SheetRows ==
    { << TextCell(<<" ","P","r","o","f","i","t"," ","&"," ","L","o","s","s"," ">>), NoValue >>,
      << TextCell(<<"C","A","S","H"," ","F","L","O","W",":">>) >>,
      << TextCell(LABEL_REPORT_DATE), DateCell(2024, 3), NoValue, DateCell(2025, 3) >>,
      << TextCell(<<" ">> \o LABEL_SALES), Num(1000), NoValue >>,
      << TextCell(LABEL_CURRENT_PRICE), Num(5500) >>,
      << TextCell(LABEL_CURRENT_PRICE) >>,
      << TextCell(LABEL_COMPANY_NAME) >>,
      << NoValue, NoValue >>,
      << NoValue, Num(700) >>,
      << TextCell(<<"P","R","I","C","E",":">>), Num(100) >> }

Sheets == UNION {[1..n -> SheetRows] : n \in 0..MaxSheetRows}

InitSheet ==
    /\ \/ ws \in Sheets /\ date_in = NoValue
       \/ ws = <<>> /\ date_in \in DateInputs
    /\ parsed_sheet = Pending
    /\ date_out = Pending
    /\ split_in = <<>>
    /\ split_out = Pending
    /\ PipelineIdle
    /\ AnalyzerIdle
    /\ ChunkerIdle
    /\ BuildIdle
    /\ ExcelIdle
    /\ MdaIdle

ParseDataSheet ==
    /\ ~parsed_sheet.done
    /\ parsed_sheet' = Returned(parse_data_sheet(ws))
    /\ UNCHANGED <<ws, date_in, date_out, split_in, split_out, pipelineVars,
                   analyzerVars, chunkerVars, buildVars, excelVars, mdaVars>>

FmtDate ==
    /\ ~date_out.done
    /\ date_out' = Returned(fmt_date(date_in))
    /\ UNCHANGED <<ws, date_in, parsed_sheet, split_in, split_out, pipelineVars,
                   analyzerVars, chunkerVars, buildVars, excelVars, mdaVars>>

NextSheet == ParseDataSheet \/ FmtDate

SpecSheet == InitSheet /\ [][NextSheet]_vars

---------------------------------------------------------------------------
(* retrieve_context on the index built from one workbook *)

MaxFinYears == 3

\* The Report Date cells of the annual statements: the n March dates up to
\* March 2025.  Those of the Quarters statement: the quarters of FY2024-25.
FiscalYearEnds(n) == [p \in 1..n |-> DateCell(2025 - n + p, 3)]
QuarterEnds == <<DateCell(2024, 6), DateCell(2024, 9), DateCell(2024, 12), DateCell(2025, 3)>>

\* A statement with one full row per metric under the given date cells.
FullStatement(cells, metrics) ==
    [dates |-> DatesOf(cells),
     rows |-> [m \in metrics |-> RowWith(1, Len(cells), 2, 1..Len(cells))]]

FinancialWorkbooks ==
    {[pl |-> FullStatement(FiscalYearEnds(n), {"Sales", "Net profit"}),
      quarters |-> IF q THEN FullStatement(QuarterEnds, {"Sales"}) ELSE EmptyStatement,
      bs |-> IF b THEN FullStatement(FiscalYearEnds(n), {"Reserves"}) ELSE EmptyStatement,
      cf |-> IF b THEN FullStatement(FiscalYearEnds(n), {"Net Cash Flow"}) ELSE EmptyStatement] :
        n \in 0..MaxFinYears, q \in BOOLEAN, b \in BOOLEAN}

TextLens == {60, 400}

\* The documents build_vectorstore stores for the chunks of one workbook:
\* texts[i] is what chunks[i]["content"] (trimmed) is long.
FinancialDocs(company, chunks, texts) ==
    [i \in 1..Len(chunks) |->
        Doc(i, texts[i], company, chunks[i].metadata.year,
            chunks[i].metadata.section, chunks[i].metadata.chunk_index)]

InitFinancial ==
    /\ data \in FinancialWorkbooks
    /\ num_in = NoValue
    /\ num_out = Pending
    /\ excel_out = Pending
    /\ pc = "idle"
    /\ req = Idle
    /\ ctx = Idle
    /\ result = Idle
    /\ gen_calls = 0
    /\ cards = <<>>
    /\ vs = <<>>
    /\ query_count = 0
    /\ AnalyzerIdle
    /\ ChunkerIdle
    /\ BuildIdle
    /\ MdaIdle
    /\ ParseIdle

\* build_vectorstore embeds the chunks of the workbook and load_vectorstore
\* returns the index.
EmbedWorkbook ==
    /\ pc = "idle"
    /\ excel_out.done
    /\ excel_out.value.raised = ""
    /\ \E len \in TextLens :
          vs' = FinancialDocs(TCS, excel_out.value.chunks,
                              [i \in 1..Len(excel_out.value.chunks) |-> len])
    /\ pc' = "loaded"
    /\ UNCHANGED <<req, ctx, result, gen_calls, cards, query_count, analyzerVars, chunkerVars, ingestVars>>

RetrieveFinancial ==
    /\ pc = "loaded"
    /\ \E query \in PipelineQueries, year_filter \in YearFilters, top_k \in TopKs :
          \E outcome \in SearchOutcomesOf(top_k, Len(vs)) :
            /\ req' = [op |-> "retrieve_context", query |-> query,
                       company_filter |-> None, year_filter |-> year_filter,
                       top_k |-> top_k, score_threshold |-> SCORE_THRESHOLD]
            /\ ctx' = retrieve_context(vs, query, None, year_filter, top_k,
                                       SCORE_THRESHOLD, outcome)
    /\ pc' = "retrieved"
    /\ UNCHANGED <<result, gen_calls, cards, vs, query_count, analyzerVars, chunkerVars, ingestVars>>

NextFinancial == IngestWorkbook \/ EmbedWorkbook \/ RetrieveFinancial

SpecFinancial == InitFinancial /\ [][NextFinancial]_vars

---------------------------------------------------------------------------
(* Properties *)

\* retrieve_context has returned for the current call.
Retrieved ==
    /\ req.op = "retrieve_and_answer"
    /\ pc \in {"compose", "returned", "shown"}
    /\ "chunks" \in DOMAIN ctx

\* The stored chunk whose text is the returned chunk c.
StoredDoc(c) == LoadedIndex[c.id]

FirstWordLower(s) == Split(Lower(s))[1]

SameTriple(a, b) ==
    a.company = b.company /\ a.year = b.year /\ a.section = b.section

\* C1: with an active company filter and an active year filter, every chunk
\* retrieve_context returns, and its source record, has a stored company that
\* (lower-cased) contains the filter's first word lower-cased and a stored year
\* equal to the year filter; with filters (ICICI Bank, FY2024-25) only chunks
\* of {ICICI Bank, FY2024-25} are returned.
C1_FiltersCompose ==
    (Retrieved /\ Truthy(ctx.company_filter) /\ Truthy(ctx.year_filter)) =>
        \A i \in 1..Len(ctx.chunks) :
            LET meta == StoredDoc(ctx.chunks[i]).metadata IN
            /\ Contains(Lower(meta.company), FirstWordLower(ctx.company_filter))
            /\ meta.year = ctx.year_filter
            /\ Contains(Lower(ctx.sources[i].company), FirstWordLower(ctx.company_filter))
            /\ ctx.sources[i].year = ctx.year_filter
            /\ (ctx.company_filter = ICICI_Bank /\ ctx.year_filter = FY2024_25
                    => meta.company = ICICI_Bank /\ meta.year = FY2024_25)

\* C1 witness: filters (ICICI Bank, FY2024-25), a search that returned a chunk
\* of another company or year beside a chunk that got through.
C1_Witness ==
    /\ Retrieved
    /\ ctx.company_filter = ICICI_Bank
    /\ ctx.year_filter = FY2024_25
    /\ Len(ctx.chunks) = 1
    /\ \E i \in 1..Len(ctx.docs_with_scores) :
          LET meta == ctx.docs_with_scores[i].doc.metadata IN
          meta.company # ICICI_Bank \/ meta.year # FY2024_25

HasFirstYearToken(q) ==
    \/ Contains(q, <<"2","0","2","4">>)
    \/ Contains(q, <<"f","y","2","4">>)
    \/ Contains(q, <<"2","0","2","3","-","2","4">>)

HasSecondYearToken(q) ==
    \/ Contains(q, <<"2","0","2","5">>)
    \/ Contains(q, <<"f","y","2","5">>)
    \/ Contains(q, <<"2","0","2","4","-","2","5">>)

\* A token of the first set that is not just the start of a "2024-25".
HasFirstYearTokenOfItsOwn(q) ==
    \/ Contains(q, <<"f","y","2","4">>)
    \/ Contains(q, <<"2","0","2","3","-","2","4">>)
    \/ \E i \in 0..(Len(q) - 4) :
          /\ SubSeq(q, i + 1, i + 4) = <<"2","0","2","4">>
          /\ SubSeq(q, i + 1, i + 7) # <<"2","0","2","4","-","2","5">>

\* C2: extract_year maps a query with a token of ("2024", "fy24", "2023-24")
\* to FY2023-24, a query with a token of ("2025", "fy25", "2024-25") to
\* FY2024-25 (a query mentioning "2024-25" among them) and any other query to
\* null.  Queries that hold tokens of both sets of their own are left open.
C2_YearTokens ==
    ayear.done =>
        LET q == Lower(aquery) IN
        /\ (HasFirstYearToken(q) /\ ~HasSecondYearToken(q)) => ayear.value = FY2023_24
        /\ (HasSecondYearToken(q) /\ ~HasFirstYearTokenOfItsOwn(q)) => ayear.value = FY2024_25
        /\ (~HasFirstYearToken(q) /\ ~HasSecondYearToken(q)) => ayear.value = None

C4_EmptyContext ==
    /\ (pc = "composed" /\ req.chunks = <<>>) =>
          result = NO_INFO_COMPOSE /\ gen_calls = 0
    /\ (Retrieved /\ pc = "returned" /\ ctx.chunks = <<>>) =>
          /\ gen_calls = 0
          /\ result.answer = NO_INFO_PIPELINE
          /\ result.sources = <<>>

\* C4 witness: generate_answer called with no chunks while the key is set and
\* the generation backend would have answered.
C4_Witness ==
    /\ pc = "composed"
    /\ req.chunks = <<>>
    /\ req.gen.api_key = SOME_KEY
    /\ req.gen.at = ""
    /\ req.intent = "risk"

ResultKeys == {"answer", "sources", "intent", "company", "year"}

\* C5: retrieve_and_answer returns, for every query and every value of the
\* filters, a dict with the keys answer, sources, intent, company and year and
\* lets no exception cross to its caller, also when both searches fail, when
\* the company filter has no word in it and when the generation call fails.
C5_AlwaysResult ==
    (req.op = "retrieve_and_answer" /\ pc \in {"raised", "returned"}) =>
        DOMAIN result = ResultKeys

IsAuthError(err) ==
    \/ Contains(Lower(err), API_KEY_TOKEN)
    \/ Contains(Lower(err), AUTHENTICATION_TOKEN)

IsRateError(err) == Contains(Lower(err), RATE_LIMIT_TOKEN)

\* C6: generate_answer never raises on a generation failure: without
\* GROQ_API_KEY it returns the key-missing string and issues no generation
\* call; an exception whose message holds "api_key" or "authentication" (in
\* any case) gives the invalid-key string, one that holds "rate_limit" the
\* rate-limit string, any other the generic string with the message in it;
\* the three strings differ and authentication is tested before rate limit.
C6_FailsClosed ==
    (pc = "composed" /\ req.chunks # <<>>) =>
        /\ DOMAIN result = {"text", "err"}
        /\ ~Truthy(req.gen.api_key) => result = KEY_MISSING /\ gen_calls = 0
        /\ (Truthy(req.gen.api_key) /\ req.gen.at # "") =>
              /\ IsAuthError(req.gen.err) => result = INVALID_KEY
              /\ (~IsAuthError(req.gen.err) /\ IsRateError(req.gen.err)) =>
                    result = RATE_LIMIT
              /\ (~IsAuthError(req.gen.err) /\ ~IsRateError(req.gen.err)) =>
                    result = GenericError(req.gen.err)
        /\ KEY_MISSING # INVALID_KEY
        /\ KEY_MISSING # RATE_LIMIT
        /\ INVALID_KEY # RATE_LIMIT

\* C6 witness: the completion call raised a message that holds both
\* "rate_limit" and "api_key", answered with the invalid-key string.
C6_Witness ==
    /\ pc = "composed"
    /\ req.chunks # <<>>
    /\ req.gen.api_key = SOME_KEY
    /\ req.gen.at = "create"
    /\ IsAuthError(req.gen.err)
    /\ IsRateError(req.gen.err)
    /\ result = INVALID_KEY
    /\ gen_calls = 1

\* The chunk at position j of chunk_text_by_sentences' output starts with the
\* sentences carried over from the chunk before it: this many.
CarriedCount(chunks, j) ==
    IF j = 1 THEN 0 ELSE Len(LastN(chunks[j - 1], OVERLAP_SENTENCES))

\* The overlap slack of a chunk: its carried sentences and the space after each.
OverlapSlack(sents, chunks, j) ==
    LET k == CarriedCount(chunks, j) IN
    SumLens(sents, SubSeq(chunks[j], 1, k)) + k

Max(a, b) == IF a >= b THEN a ELSE b

SectionChunks == chunk_text_by_sentences(sentences, CHUNK_SIZE, OVERLAP_SENTENCES)

\* C7 as stated: every chunk chunk_sections emits is at least 150 characters
\* long, at most 1000 plus the overlap slack, and not empty.
C7_ChunkLength ==
    chunks_out.done =>
        \A p \in 1..Len(chunks_out.value) :
            LET e == chunks_out.value[p]
                n == JoinedLen(sentences, e.content)
            IN  /\ n >= MIN_CHUNK_LEN
                /\ n <= CHUNK_SIZE
                        + OverlapSlack(sentences, SectionChunks, e.metadata.chunk_index + 1)
                /\ e.content # <<>>

\* C7 as amended: every chunk chunk_sections emits is at least 150 characters
\* long, not empty, and at most the overlap slack plus the larger of 1000 and
\* the length of its first sentence that is not carried over: a sentence of
\* more than 1000 characters is never cut, so its chunk is longer than 1000
\* plus the overlap slack.
C7_ChunkLengthAmended ==
    chunks_out.done =>
        \A p \in 1..Len(chunks_out.value) :
            LET e == chunks_out.value[p]
                j == e.metadata.chunk_index + 1
                n == JoinedLen(sentences, e.content)
                k == CarriedCount(SectionChunks, j)
            IN  /\ n >= MIN_CHUNK_LEN
                /\ e.content # <<>>
                /\ Len(e.content) > k
                /\ n <= OverlapSlack(sentences, SectionChunks, j)
                        + Max(CHUNK_SIZE, sentences[e.content[k + 1]])

\* C7 witness: an emitted chunk that is longer than 1000 characters because
\* of the sentences carried over, and one made of a sentence of more than
\* 1000 characters.
C7_Witness ==
    /\ chunks_out.done
    /\ \E p \in 1..Len(chunks_out.value) :
          LET e == chunks_out.value[p] IN
          /\ CarriedCount(SectionChunks, e.metadata.chunk_index + 1) = 2
          /\ JoinedLen(sentences, e.content) > CHUNK_SIZE
          /\ \A i \in 1..Len(e.content) : sentences[e.content[i]] <= CHUNK_SIZE
    /\ \E p \in 1..Len(chunks_out.value) :
          LET e == chunks_out.value[p] IN
          /\ e.metadata.chunk_index = 0
          /\ sentences[e.content[1]] > CHUNK_SIZE

\* The last overlap_sentences sentences of chunk a (all of them when it has
\* fewer) are the first sentences of chunk b.
Overlaps(a, b) ==
    LET tail == LastN(a, OVERLAP_SENTENCES) IN
    Len(b) >= Len(tail) /\ SubSeq(b, 1, Len(tail)) = tail

\* C8 as stated: of any two consecutive chunks emitted for a section, the last
\* 2 sentences of the first are the first sentences of the second.
C8_OverlapEmitted ==
    chunks_out.done =>
        \A p \in 1..(Len(chunks_out.value) - 1) :
            Overlaps(chunks_out.value[p].content, chunks_out.value[p + 1].content)

\* C8 as amended: of any two chunks emitted for a section whose chunk_index
\* are i and i+1, the last 2 sentences of the first (all of its sentences when
\* it has fewer than 2) are the first sentences of the second, whole sentences
\* always; a chunk under 150 characters dropped between two emitted chunks
\* leaves them with less in common.
C8_OverlapByIndex ==
    chunks_out.done =>
        \A p, q \in 1..Len(chunks_out.value) :
            chunks_out.value[q].metadata.chunk_index
                = chunks_out.value[p].metadata.chunk_index + 1
            => Overlaps(chunks_out.value[p].content, chunks_out.value[q].content)

\* C8 witness: two emitted chunks of consecutive chunk_index, the first of at
\* least 3 sentences, the second with a sentence of its own.
C8_Witness ==
    /\ chunks_out.done
    /\ Len(chunks_out.value) >= 2
    /\ chunks_out.value[2].metadata.chunk_index
          = chunks_out.value[1].metadata.chunk_index + 1
    /\ Len(chunks_out.value[1].content) >= 3
    /\ Len(chunks_out.value[2].content) >= 3

\* C9: detect_intent returns the first of risk, outlook, performance, people
\* whose keywords have a substring match in the lower-cased query, and general
\* when none has; a query with a risk keyword and a performance keyword is
\* classified risk.
C9_IntentPrecedence ==
    aintent.done =>
        LET q == Lower(aquery)
            r == AnyIn(RISK_TRIGGERS, q)
            o == AnyIn(OUTLOOK_TRIGGERS, q)
            p == AnyIn(PERFORMANCE_TRIGGERS, q)
            h == AnyIn(PEOPLE_TRIGGERS, q)
        IN  /\ r => aintent.value = "risk"
            /\ (~r /\ o) => aintent.value = "outlook"
            /\ (~r /\ ~o /\ p) => aintent.value = "performance"
            /\ (~r /\ ~o /\ ~p /\ h) => aintent.value = "people"
            /\ (~r /\ ~o /\ ~p /\ ~h) => aintent.value = "general"

RISKS_TO_REVENUE_GROWTH ==
    <<"W","h","a","t"," ","a","r","e"," ","t","h","e"," ","r","i","s","k","s"," ","t","o"," ","r","e","v","e","n","u","e"," ","g","r","o","w","t","h","?">>

\* C9 witness: "What are the risks to revenue growth?" classified risk.
C9_Witness ==
    /\ aintent.done
    /\ aquery = RISKS_TO_REVENUE_GROWTH
    /\ AnyIn(PERFORMANCE_TRIGGERS, Lower(aquery))
    /\ aintent.value = "risk"

\* C10: in retrieve_context an explicitly passed company_filter or year_filter
\* is the one used for filtering and returned, whatever the query mentions;
\* the query text is consulted for a parameter only when that parameter is
\* None, and each parameter is resolved without regard to the other.
C10_ExplicitFirst ==
    Retrieved =>
        LET company == IF req.company_filter # None THEN req.company_filter
                       ELSE extract_company(req.query).name
            year == IF req.year_filter # None THEN req.year_filter
                    ELSE extract_year(req.query)
        IN  /\ ctx.company_filter = company
            /\ ctx.year_filter = year
            /\ \A i \in 1..Len(ctx.chunks) :
                  LET meta == StoredDoc(ctx.chunks[i]).metadata IN
                  /\ Truthy(company) =>
                        Contains(Lower(meta.company), FirstWordLower(company))
                  /\ Truthy(year) => meta.year = year

\* C10 witness: a query that mentions TCS and FY25, called with the company
\* ICICI Bank and no year: ICICI Bank chunks of the year taken from the query.
C10_Witness ==
    /\ Retrieved
    /\ extract_company(req.query).name = TCS
    /\ extract_year(req.query) = FY2024_25
    /\ req.company_filter = ICICI_Bank
    /\ req.year_filter = None
    /\ ctx.company_filter = ICICI_Bank
    /\ ctx.year_filter = FY2024_25
    /\ Len(ctx.chunks) >= 1

---------------------------------------------------------------------------
(* Properties of build_vectorstore *)

\* The causes of a skip as the sentence names them: the path does not exist,
\* extracting or parsing raises, or no chunk comes out.
NamedSkip(i) ==
    \/ ~files[i].exists
    \/ files[i].fails # ""
    \/ files[i].chunks = 0

SkippedBefore(e) == Cardinality({i \in 1..(e - 1) : NamedSkip(i)})

ProcessedBefore(kind, e) ==
    Cardinality({i \in 1..(e - 1) : Manifest[i].kind = kind /\ ~NamedSkip(i)})

\* C11: in build_vectorstore a missing source file, an exception raised while
\* extracting or parsing a source, or a source that yields zero chunks never
\* aborts the build: the document is counted as skipped and the loops go on
\* with the next manifest entry; when the build ends, pdf_processed +
\* excel_processed + skipped is the number of manifest entries.
C11_SkipsNeverAbort ==
    /\ bpc \in {"ingest", "done"} =>
          /\ skipped = SkippedBefore(entry)
          /\ pdf_processed = ProcessedBefore("pdf", entry)
          /\ excel_processed = ProcessedBefore("excel", entry)
          /\ pdf_processed + excel_processed + skipped = entry - 1
    /\ bpc = "done" =>
          /\ entry = Len(Manifest) + 1
          /\ pdf_processed + excel_processed + skipped
                = Len(PDF_DOCUMENTS) + Len(EXCEL_DOCUMENTS)
    /\ bpc = "raised" => ~NamedSkip(entry)

\* C11 witness: a finished build that met a missing file, a file whose
\* extraction raised and a file without chunks, and processed a fourth.
C11_Witness ==
    /\ bpc = "done"
    /\ \E i, j, k, l \in 1..Len(Manifest) :
          /\ ~files[i].exists
          /\ files[j].fails # ""
          /\ files[k] = GoodFile(0)
          /\ files[l].chunks > 0
    /\ skipped = 3
    /\ pdf_processed + excel_processed = 1

RECURSIVE ChunksBefore(_)
\* The chunks of the batches of the entries before e, in manifest order.
ChunksBefore(e) ==
    IF e <= 1 THEN <<>>
    ELSE ChunksBefore(e - 1) \o
            (IF NamedSkip(e - 1) THEN <<>>
             ELSE [k \in 1..files[e - 1].chunks |-> [source |-> Manifest[e - 1], nth |-> k]])

StoreOf(docs) == IF docs = <<>> THEN NoStore ELSE Store(docs)

\* C12: every run of build_vectorstore starts from an empty index; the first
\* non-empty batch initializes it and each later one is appended, so the index
\* holds exactly the chunks of the batches processed so far in this run, each
\* once, in manifest order (PDF batches before Excel batches), and
\* total_chunks is their number; it is saved once, after the last batch, and
\* not at all when no batch was processed.  A second run on the same files
\* leaves the same saved index.
C12_IndexOfThisRun ==
    /\ bpc \in {"ingest", "done"} =>
          /\ vectorstore_local = StoreOf(ChunksBefore(entry))
          /\ total_chunks = Len(ChunksBefore(entry))
    /\ bpc = "ingest" => saves = 0
    /\ bpc = "done" =>
          /\ saved_index = StoreOf(ChunksBefore(Len(Manifest) + 1))
          /\ saves = (IF vectorstore_local.is_none THEN 0 ELSE 1)
          /\ ~saved_index.is_none =>
                \A i, j \in 1..Len(saved_index.docs) :
                    /\ i # j => saved_index.docs[i] # saved_index.docs[j]
                    /\ (i < j /\ saved_index.docs[i].source.kind = "excel")
                          => saved_index.docs[j].source.kind = "excel"

\* C12 witness: the second run has ended; the first PDF was skipped, the
\* second initialized the index and an Excel batch was appended to it.
C12_Witness ==
    /\ bpc = "done"
    /\ runs = 2
    /\ saves = 1
    /\ NamedSkip(1)
    /\ pdf_processed = 1
    /\ excel_processed >= 1
    /\ Len(saved_index.docs) >= 3
    /\ saved_index.docs[1].source.kind = "pdf"
    /\ saved_index.docs[Len(saved_index.docs)].source.kind = "excel"

---------------------------------------------------------------------------
(* Properties of the search path of retrieve_context *)

\* The tests of retrieve_context other than the score test, on a stored doc.
PassesFilters(doc) ==
    /\ Truthy(ctx.company_filter) =>
          Contains(Lower(doc.metadata.company), FirstWordLower(ctx.company_filter))
    /\ Truthy(ctx.year_filter) => doc.metadata.year = ctx.year_filter
    /\ doc.page_content.len >= MIN_TEXT_LEN

IsReturned(doc) == \E j \in 1..Len(ctx.chunks) : ctx.chunks[j] = doc.page_content

\* C13: retrieve_context first tries the diversity (MMR) search, asking for
\* top_k results out of a pool of 3 * top_k, and issues the plain similarity
\* search with scores only when the diversity search raised; on the diversity
\* path no result is dropped on account of a score; on the fallback path a
\* result is dropped exactly when its distance is greater than score_threshold
\* (a distance equal to the threshold is kept).  (Read when retrieve_context
\* has just returned.)
C13_SearchAndScore ==
    (Retrieved /\ pc = "compose") =>
        /\ ctx.searches[1].fn = "max_marginal_relevance_search"
        /\ ctx.searches[1].k = req.top_k
        /\ ctx.searches[1].fetch_k = 3 * req.top_k
        /\ ctx.search = "mmr" => Len(ctx.searches) = 1
        /\ ctx.search = "similarity" =>
              /\ Len(ctx.searches) = 2
              /\ ctx.searches[2].fn = "similarity_search_with_score"
              /\ ctx.searches[2].k = req.top_k
        /\ \A i \in 1..Len(ctx.docs_with_scores) :
              LET item == ctx.docs_with_scores[i] IN
              /\ ctx.search = "mmr" =>
                    /\ item.score = NO_SCORE
                    /\ IsReturned(item.doc) <=> PassesFilters(item.doc)
              /\ ctx.search = "similarity" =>
                    (IsReturned(item.doc) <=>
                        (PassesFilters(item.doc) /\ item.score <= req.score_threshold))

\* C13 witness: the diversity search raised; of two results that pass the
\* other tests, the one at the threshold is returned and the one above is not.
C13_Witness ==
    /\ Retrieved
    /\ pc = "compose"
    /\ ctx.search = "similarity"
    /\ \E i, j \in 1..Len(ctx.docs_with_scores) :
          /\ ctx.docs_with_scores[i].score = req.score_threshold
          /\ IsReturned(ctx.docs_with_scores[i].doc)
          /\ ctx.docs_with_scores[j].score > req.score_threshold
          /\ PassesFilters(ctx.docs_with_scores[j].doc)
          /\ ~IsReturned(ctx.docs_with_scores[j].doc)

\* What the vector backend did, read back from a result of retrieve_context.
OutcomeOf(rc) ==
    [mmr_ok |-> rc.search = "mmr",
     sim_ok |-> TRUE,
     picks |-> [i \in 1..Len(rc.docs_with_scores) |-> rc.docs_with_scores[i].doc.page_content.id],
     scores |-> IF rc.search = "mmr" THEN <<>>
                ELSE [i \in 1..Len(rc.docs_with_scores) |-> rc.docs_with_scores[i].score]]

---------------------------------------------------------------------------
(* Properties of extract_company *)

ALIAS_ORDER ==
    << <<"i","c","i","c","i">>, <<"h","d","f","c">>, <<"t","c","s">>,
       <<"i","n","f","o","s","y","s">>, <<"r","e","l","i","a","n","c","e">>,
       <<"a","d","a","n","i">> >>

\* C15: extract_company returns the company of the first alias, in the
\* declaration order icici, hdfc, tcs, infosys, reliance, adani, that occurs
\* as a substring of the lower-cased query, wherever the aliases stand in the
\* query text; it returns (None, None) when no alias occurs, and then
\* retrieve_context, called without a company, drops no chunk for its company.
C15_FirstDeclaredAlias ==
    acompany.done =>
        LET q == Lower(aquery)
            found == acompany.value
        IN  /\ [i \in 1..Len(COMPANY_MAP) |-> COMPANY_MAP[i].key] = ALIAS_ORDER
            /\ \A i \in 1..Len(ALIAS_ORDER) :
                  (/\ Contains(q, ALIAS_ORDER[i])
                   /\ \A j \in 1..(i - 1) : ~Contains(q, ALIAS_ORDER[j]))
                  => found = COMPANY_MAP[i]
            /\ (\A i \in 1..Len(ALIAS_ORDER) : ~Contains(q, ALIAS_ORDER[i])) =>
                  /\ found = [key |-> None, name |-> None]
                  /\ ResolveCompany(aquery, None) = None
                  /\ \A d \in 1..Len(LoadedIndex) :
                        ~CompanyDrops(CompanyKey(ResolveCompany(aquery, None)),
                                      LoadedIndex[d].metadata.company)

\* C15 witness: a query that names Infosys before tcs; tcs is declared before
\* infosys, and TCS is returned.
C15_Witness ==
    /\ acompany.done
    /\ Contains(Lower(aquery), ALIAS_ORDER[3])
    /\ Contains(Lower(aquery), ALIAS_ORDER[4])
    /\ FirstAt(Lower(aquery), ALIAS_ORDER[4]) < FirstAt(Lower(aquery), ALIAS_ORDER[3])
    /\ acompany.value.name = TCS

---------------------------------------------------------------------------
(* Properties of ingest_excel.py *)

RUPEE_SIGN == <<"U+20B9">>

RECURSIVE StripCommas(_)
StripCommas(text) ==
    IF text = <<>> THEN <<>>
    ELSE (IF text[1] = "," THEN <<>> ELSE <<text[1]>>) \o StripCommas(Tail(text))

\* C16: fmt_num formats a number whose absolute value is at least 100000 as
\* the rupee sign, the value divided by 100 without decimals and " crore"
\* (150000 gives "₹1500 crore"), every other number as the rupee sign, the
\* value itself with two decimals and " crore" (500 gives "₹500.00 crore";
\* digit grouping is not counted against it), and None as "N/A".
C16_FmtNum ==
    num_out.done =>
        /\ num_in.kind = "none" => num_out.value = <<"N", "/", "A">>
        /\ num_in.kind = "number" =>
              LET a == Abs(num_in.h)
                  sign == IF num_in.h < 0 THEN <<"-">> ELSE <<>>
                  crore == <<" ", "c", "r", "o", "r", "e">>
              IN  IF a >= 100000 * 100
                  THEN \E n \in {a \div 10000, (a \div 10000) + 1} :
                          /\ 2 * Abs(n * 10000 - a) <= 10000
                          /\ num_out.value = RUPEE_SIGN \o sign \o Digits(n) \o crore
                  ELSE StripCommas(num_out.value)
                          = RUPEE_SIGN \o sign \o Digits(a \div 100) \o <<".">>
                               \o TwoDigits(a % 100) \o crore
        /\ num_in = Num(150000 * 100) =>
              num_out.value = RUPEE_SIGN \o <<"1", "5", "0", "0", " ", "c", "r", "o", "r", "e">>
        /\ num_in = Num(500 * 100) =>
              num_out.value = RUPEE_SIGN \o <<"5", "0", "0", ".", "0", "0", " ", "c", "r", "o", "r", "e">>

NoChange == [shown |-> FALSE]

\* C17: for every period d among the most recent (at most 5) periods of the
\* profit & loss data, also when fewer than 5 were captured, there is a
\* per-period chunk labelled d; for each key metric it reports the value
\* stored at d's position and nothing else, with the delta against the value
\* at the preceding position, and its net-margin line is derived from the
\* Net profit and Sales values of that position.
C17_PeriodChunksAligned ==
    (excel_out.done /\ data.pl.dates # <<>>) =>
        LET dates == data.pl.dates
            rows == data.pl.rows
            n == Len(dates)
            first == IF n > 5 THEN n - 4 ELSE 1
            out == excel_out.value
        IN  /\ out.raised = ""
            /\ \A p \in first..n :
                  \E k \in 1..Len(out.chunks) :
                      LET c == out.chunks[k] IN
                      /\ c.metadata.year = dates[p]
                      /\ c.metadata.section = SEC_PNL
                      /\ \A m \in DOMAIN rows :
                            rows[m][p].kind # "none" =>
                               \E i \in 1..Len(c.content.lines) :
                                   /\ c.content.lines[i].metric = m
                                   /\ c.content.lines[i].value = rows[m][p]
                                   /\ c.content.lines[i].chg
                                        = (IF p > 1 /\ TruthyValue(rows[m][p - 1])
                                           THEN pct_change(rows[m][p], rows[m][p - 1])
                                           ELSE NoChange)
                      /\ \A i \in 1..Len(c.content.lines) :
                            c.content.lines[i].value = rows[c.content.lines[i].metric][p]
                      /\ \A i \in 1..Len(c.content.margin) :
                            /\ c.content.margin[i].net = rows["Net profit"][p]
                            /\ c.content.margin[i].sales = rows["Sales"][p]
                      /\ TruthyValue(rows["Sales"][p]) => Len(c.content.margin) = 1

StatementOf(name) ==
    IF name = "pl" THEN data.pl
    ELSE IF name = "quarters" THEN data.quarters
    ELSE IF name = "bs" THEN data.bs
    ELSE data.cf

\* C18: the summary chunk of each statement lists the most recent min(N,
\* number of captured periods) period labels in order (N = 8 for quarterly,
\* 5 for the others), and every metric value it prints is paired with the
\* label of the period at that value's position in the metric's row, also
\* when values inside the window are None and when fewer than N periods were
\* captured.
C18_SummaryPairsAligned ==
    (excel_out.done /\ excel_out.value.raised = "") =>
        \A k \in 1..Len(excel_out.value.chunks) :
            LET c == excel_out.value.chunks[k] IN
            "covered" \in DOMAIN c.content =>
                LET st == StatementOf(c.content.statement)
                    n == Len(st.dates)
                    most == IF c.content.statement = "quarters" THEN 8 ELSE 5
                    first == IF n > most THEN n - most + 1 ELSE 1
                IN  /\ c.content.covered = SubSeq(st.dates, first, n)
                    /\ \A i \in 1..Len(c.content.lines) :
                          \A j \in 1..Len(c.content.lines[i].pairs) :
                              \E p \in 1..n :
                                  /\ st.dates[p] = c.content.lines[i].pairs[j].label
                                  /\ st.rows[c.content.lines[i].metric][p]
                                        = c.content.lines[i].pairs[j].value


---------------------------------------------------------------------------
(* The section pointer and the kept lines of extract_mda_sections *)

\* The lines read so far in document order, each with the number of its page.
RECURSIVE LinesOfPages(_, _)
LinesOfPages(pages, n) ==
    IF n = 0 THEN <<>>
    ELSE LinesOfPages(pages, n - 1)
         \o (IF pages[n].has_text
             THEN [i \in 1..Len(pages[n].lines) |-> [line |-> pages[n].lines[i], page |-> n]]
             ELSE <<>>)

LinesRead == LinesOfPages(pdf_pages, Len(pdf_pages))

\* The places in the table of the sections that have a keyword somewhere in
\* the lower-cased line.
SectionsNamedBy ==
    [line \in Lines |->
        {i \in 1..Len(SECTION_KEYWORDS) :
            \E k \in 1..Len(SECTION_KEYWORDS[i].keywords) :
                Contains(Lower(line), SECTION_KEYWORDS[i].keywords[k])}]

Largest(S) == CHOOSE x \in S : \A y \in S : y <= x

\* The section that is current once the first n lines are read: the earliest
\* declared section named by the last line that names any, the general label
\* when no line named one.
PointerAfter(n) ==
    LET naming == {i \in 1..n : SectionsNamedBy[LinesRead[i].line] # {}}
    IN  IF naming = {} THEN MDA_GENERAL
        ELSE SECTION_KEYWORDS[Min(SectionsNamedBy[LinesRead[Largest(naming)].line])].section

\* The lines after trimming.
Trimmed == [line \in Lines |-> Strip(line)]

\* The entry a line leaves when it is kept.
EntryOf(l) == [text |-> Trimmed[l.line], page |-> l.page]

\* C19: the current-section pointer starts at the general label and is, after
\* any number of lines and pages, the first section in declaration order with
\* a keyword in the last line that had any match, whether that line was kept
\* or discarded as too short; and an entry stands in the section the pointer
\* had after its own line was looked at.
C19_PointerFirstMatch ==
    /\ current_section = PointerAfter(Len(LinesRead))
    /\ \A s \in DOMAIN extracted : \A j \in 1..Len(extracted[s]) :
          \E i \in 1..Len(LinesRead) :
              /\ extracted[s][j] = EntryOf(LinesRead[i])
              /\ PointerAfter(i) = s

\* A short heading on the first page made Risks & Risk Management current,
\* a line without keyword on the next page was appended there, and a line
\* naming two sections was appended to the one declared first.
C19_Witness ==
    /\ Len(pdf_pages) >= 2
    /\ pdf_pages[1] = TextPage(<< <<" ">> \o RISK_HEADING \o <<" ">> >>)
    /\ extracted[SEC_RISK] = <<[text |-> Padded(PLAIN_TEXT, 41), page |-> 2]>>
    /\ extracted[SEC_MACRO] = <<[text |-> Padded(ECONOMIC_OUTLOOK, 41), page |-> Len(pdf_pages)]>>
    /\ extracted[SEC_OUTLOOK] = <<>>
    /\ current_section = SEC_MACRO

\* C20: a line is discarded exactly when its length after trimming is shorter
\* than 40 characters; every line of trimmed length 40 or more is appended to
\* the section that is current at that point.
C20_KeptFromForty ==
    \A i \in 1..Len(LinesRead) :
        LET e == EntryOf(LinesRead[i])
        IN  IF Len(e.text) < 40
            THEN \A s \in DOMAIN extracted : \A j \in 1..Len(extracted[s]) :
                     extracted[s][j] # e
            ELSE \E j \in 1..Len(extracted[PointerAfter(i)]) :
                     extracted[PointerAfter(i)][j] = e


---------------------------------------------------------------------------
(* The closing rule of chunk_text_by_sentences *)

\* The packing as the rule describes it: the buffer is closed before a
\* sentence exactly when it is not empty and its sentences joined with single
\* spaces, plus the sentence, are longer than chunk_size; the next buffer
\* starts with the last 2 sentences of the closed one; what is left at the
\* end is flushed.
RECURSIVE PackByJoinedLength(_, _, _, _)
PackByJoinedLength(sents, todo, chunks, buffer) ==
    IF todo = <<>>
    THEN IF buffer # <<>> THEN Append(chunks, buffer) ELSE chunks
    ELSE LET close == /\ buffer # <<>>
                      /\ JoinedLen(sents, buffer) + sents[todo[1]] > CHUNK_SIZE
         IN  PackByJoinedLength(sents, Tail(todo),
                                IF close THEN Append(chunks, buffer) ELSE chunks,
                                Append(IF close THEN LastN(buffer, 2) ELSE buffer, todo[1]))

\* C21: chunk_text_by_sentences closes the current chunk before a sentence
\* exactly when the buffer is not empty and the length of the buffer joined
\* with single spaces plus the length of the sentence exceeds 1000, seeds the
\* next buffer with the last 2 sentences of the closed chunk, and flushes
\* what remains after the last sentence.
C21_ClosesOnJoinedLength ==
    text_chunks.done =>
        text_chunks.value
            = PackByJoinedLength(sentences, LongEnough(sentences, 1), <<>>, <<>>)


---------------------------------------------------------------------------
(* The abbreviations in the sentences of split_into_sentences *)

EndsWith(s, suffix) ==
    Len(s) >= Len(suffix) /\ SubSeq(s, Len(s) - Len(suffix) + 1, Len(s)) = suffix

\* C22: no sentence boundary is produced after a protected abbreviation, and
\* the sentences returned hold every protected abbreviation in its original
\* form with its periods: joined with single spaces they give back the text.
C22_AbbreviationsRestored ==
    split_out.done =>
        /\ \A i \in 1..(Len(split_out.value) - 1) : \A a \in 1..Len(ABBR_MAP) :
              ~EndsWith(split_out.value[i], ABBR_MAP[a].full)
        /\ JoinSpace(split_out.value) = split_in


---------------------------------------------------------------------------
(* The rows parse_data_sheet stores *)

\* The label of row i of the sheet: its first cell trimmed, "" for an empty one.
LabelAt(i) == IF ws[i][1].kind = "text" THEN Strip(ws[i][1].text) ELSE <<>>
ValuesAt(i) == Tail(ws[i])

HeaderLabels == {SECTION_MAP[k].header : k \in 1..Len(SECTION_MAP)}
MetaLabels == {LABEL_COMPANY_NAME, LABEL_CURRENT_PRICE, LABEL_MARKET_CAP}
Statements == {SECTION_MAP[k].key : k \in 1..Len(SECTION_MAP)}

IsHeaderRow(i) == Upper(LabelAt(i)) \in HeaderLabels

\* The statement whose header row most recently precedes row i; "" when row
\* i precedes every header.
StatementAt(i) ==
    LET headers == {j \in 1..(i - 1) : IsHeaderRow(j)}
    IN  IF headers = {} THEN ""
        ELSE LET last == Largest(headers)
             IN  SECTION_MAP[CHOOSE k \in 1..Len(SECTION_MAP) :
                                SECTION_MAP[k].header = Upper(LabelAt(last))].key

\* Row i is a metric row: it has a label, which is no header, no meta label,
\* not "Report Date" and none of the skipped labels.
IsMetricRow(i) ==
    /\ LabelAt(i) # <<>>
    /\ ~IsHeaderRow(i)
    /\ LabelAt(i) \notin MetaLabels \cup SKIPPED_LABELS \cup {LABEL_REPORT_DATE}

\* The non-empty cells of a row of dates, as the labels fmt_date gives.
RECURSIVE LabelsOfDates(_)
LabelsOfDates(values) ==
    IF values = <<>> THEN <<>>
    ELSE (IF values[1] = NoValue THEN <<>> ELSE <<fmt_date(values[1])>>)
         \o LabelsOfDates(Tail(values))

\* C23: every metric row is stored under the statement whose header row most
\* recently preceded it, and under no statement when it precedes every
\* header; a "Report Date" row sets the period labels of that statement only;
\* the meta rows are stored in meta only, never as a metric of a statement.
C23_RowsUnderLastHeader ==
    (parsed_sheet.done /\ ~parsed_sheet.value.raised) =>
        LET d == parsed_sheet.value.data IN
        /\ \A s \in Statements :
              LET metric == {i \in 1..Len(ws) : IsMetricRow(i) /\ StatementAt(i) = s}
                  dated == {i \in 1..Len(ws) :
                               LabelAt(i) = LABEL_REPORT_DATE /\ StatementAt(i) = s}
              IN  /\ DOMAIN d[s].rows = {LabelAt(i) : i \in metric}
                  /\ \A l \in DOMAIN d[s].rows :
                        d[s].rows[l]
                            = ValuesAt(Largest({i \in metric : LabelAt(i) = l}))
                  /\ d[s].dates
                        = IF dated = {} THEN <<>>
                          ELSE LabelsOfDates(ValuesAt(Largest(dated)))
                  /\ DOMAIN d[s].rows \cap MetaLabels = {}
        /\ ("current_price" \in DOMAIN d.meta)
              <=> \E i \in 1..Len(ws) : LabelAt(i) = LABEL_CURRENT_PRICE
        /\ ("company" \in DOMAIN d.meta)
              <=> \E i \in 1..Len(ws) : LabelAt(i) = LABEL_COMPANY_NAME

\* A metric row after the header in mixed case is stored under pl and under
\* no other statement, and the price row after it is in meta only.
C23_Witness ==
    /\ parsed_sheet.done
    /\ ~parsed_sheet.value.raised
    /\ Len(ws) = 3
    /\ IsHeaderRow(1)
    /\ IsMetricRow(2)
    /\ LabelAt(3) = LABEL_CURRENT_PRICE
    /\ DOMAIN parsed_sheet.value.data.pl.rows = {LABEL_SALES}
    /\ DOMAIN parsed_sheet.value.data.cf.rows = {}
    /\ DOMAIN parsed_sheet.value.data.meta = {"current_price"}


---------------------------------------------------------------------------
(* The labels of fmt_date *)

\* The label of the fiscal year (April to March) that ends in March of year.
FiscalYearEnding(year) ==
    <<"F", "Y">> \o Digits(year - 1) \o <<"-">> \o TwoDigits(year % 100)

\* C24: a date in March of year Y is labelled FY{Y-1}-{YY}; dates in June,
\* September and December are labelled Q1, Q2 and Q3 of the fiscal year that
\* contains them, which is the one that ends in March of the next year.
C24_QuartersOfFiscalYear ==
    (date_out.done /\ date_in.kind = "date") =>
        /\ date_in.month = 3 => date_out.value = FiscalYearEnding(date_in.year)
        /\ date_in.month = 6 =>
              date_out.value = <<"Q", "1", " ">> \o FiscalYearEnding(date_in.year + 1)
        /\ date_in.month = 9 =>
              date_out.value = <<"Q", "2", " ">> \o FiscalYearEnding(date_in.year + 1)
        /\ date_in.month = 12 =>
              date_out.value = <<"Q", "3", " ">> \o FiscalYearEnding(date_in.year + 1)


---------------------------------------------------------------------------
(* The intent of the rewritten query *)

\* C25: for every query, detect_intent applied to the enhanced query (the
\* query followed by the first 4 entries of INTENT_KEYWORDS for the detected
\* intent) gives the intent detect_intent gave for the query.
C25_RewritingKeepsIntent ==
    aintent.done =>
        detect_intent(EnhancedQuery(aquery, aintent.value)) = aintent.value

\* A query classified outlook whose rewriting appends the outlook keywords;
\* "risk" would be detected first if the rewriting held a risk trigger.
C25_Witness ==
    /\ aintent.done
    /\ aintent.value = "outlook"
    /\ AnyIn(OUTLOOK_TRIGGERS, Lower(aquery))
    /\ Len(EnhancedQuery(aquery, aintent.value)) > Len(aquery) + 4


----------------------------------------------------------------------------
(* Properties of the lists retrieve_context returns *)

\* C26: the chunks and sources lists retrieve_context returns have the same
\* length and are aligned by position: sources[i] holds the company, year,
\* section and chunk_index metadata of the stored document whose text is
\* chunks[i].  (Read when retrieve_context has just returned.)
C26_SourcesAligned ==
    (Retrieved /\ pc = "compose") =>
        /\ Len(ctx.chunks) = Len(ctx.sources)
        /\ \A i \in 1..Len(ctx.chunks) :
              LET meta == StoredDoc(ctx.chunks[i]).metadata IN
              /\ ctx.sources[i].company = meta.company
              /\ ctx.sources[i].year = meta.year
              /\ ctx.sources[i].section = meta.section
              /\ ctx.sources[i].chunk_index = meta.chunk_index

\* C26 witness: the first of two results was dropped and the second, the
\* second chunk of its section, is the only chunk returned.
C26_Witness ==
    /\ Retrieved
    /\ pc = "compose"
    /\ Len(ctx.docs_with_scores) = 2
    /\ Len(ctx.chunks) = 1
    /\ ctx.chunks[1] = ctx.docs_with_scores[2].doc.page_content
    /\ ctx.sources[1].chunk_index = 1

\* Whether s is t with some of its elements left out.
RECURSIVE IsSubsequence(_, _)
IsSubsequence(s, t) ==
    IF s = <<>> THEN TRUE
    ELSE IF t = <<>> THEN FALSE
    ELSE IF s[1] = t[1] THEN IsSubsequence(Tail(s), Tail(t))
    ELSE IsSubsequence(s, Tail(t))

\* The texts of the backend's result list, in its order.
ResultTexts == [j \in 1..Len(ctx.docs_with_scores) |-> ctx.docs_with_scores[j].doc.page_content]

\* C28: the chunks retrieve_context returns are an order-preserving
\* subsequence of the backend's result list, so at most top_k of them are
\* returned; the filters are applied to those results only, so a chunk of the
\* index that is not among the results is never returned, even when it
\* passes every filter.  (Read when retrieve_context has just returned.)
C28_SubsequenceOfResults ==
    (Retrieved /\ pc = "compose") =>
        /\ IsSubsequence(ctx.chunks, ResultTexts)
        /\ Len(ctx.chunks) <= req.top_k
        /\ \A k \in 1..Len(vs) :
              (\A j \in 1..Len(ResultTexts) : ResultTexts[j] # vs[k].page_content)
                  => ~IsReturned(vs[k])

\* C28 witness: two results in an order other than the index order are both
\* returned, and a chunk of the index that passes every filter is not.
C28_Witness ==
    /\ Retrieved
    /\ pc = "compose"
    /\ req.top_k = 2
    /\ Len(ctx.chunks) = 2
    /\ ctx.chunks[1].id > ctx.chunks[2].id
    /\ \E k \in 1..Len(vs) : PassesFilters(vs[k]) /\ ~IsReturned(vs[k])


----------------------------------------------------------------------------
(* Properties of retrieve_context on financial chunks *)

\* retrieve_context has returned chunks of the workbook's index.
FinancialRetrieved == pc = "retrieved" /\ "chunks" \in DOMAIN ctx

\* The chunk ingest_excel generated whose text is the returned chunk c.
GeneratedChunk(c) == excel_out.value.chunks[c.id]

IsPeriodChunk(chunk) == "period" \in DOMAIN chunk.content

----------------------------------------------------------------------------
(* Properties of the packing of sentences into chunks *)

\* The positions of the sentences of at least 10 characters, in order.
RetainedSentences ==
    SelectSeq([i \in 1..Len(sentences) |-> i],
              LAMBDA i : sentences[i] >= MIN_SENTENCE_LEN)

\* The chunks from position j on, each without the sentences carried over
\* from the chunk before it, concatenated.
RECURSIVE OwnSentences(_, _)
OwnSentences(chunks, j) ==
    IF j > Len(chunks) THEN <<>>
    ELSE SubSeq(chunks[j], CarriedCount(chunks, j) + 1, Len(chunks[j]))
         \o OwnSentences(chunks, j + 1)

\* C29: chunk_text_by_sentences loses and reorders no sentence: every
\* sentence of at least 10 characters is in at least one returned chunk, and
\* the chunks, each after the first without its leading sentences carried
\* over from the chunk before it, concatenated, are exactly the retained
\* sentences in their original order.
C29_NoSentenceLost ==
    text_chunks.done =>
        /\ \A i \in 1..Len(sentences) :
              sentences[i] >= MIN_SENTENCE_LEN =>
                  \E j \in 1..Len(text_chunks.value) :
                      \E p \in 1..Len(text_chunks.value[j]) : text_chunks.value[j][p] = i
        /\ OwnSentences(text_chunks.value, 1) = RetainedSentences

\* C29 witness: a sentence under 10 characters was left out, and of three
\* chunks the second carries one sentence over and the third carries two.
C29_Witness ==
    /\ text_chunks.done
    /\ \E i \in 1..Len(sentences) : sentences[i] < MIN_SENTENCE_LEN
    /\ Len(text_chunks.value) >= 3
    /\ CarriedCount(text_chunks.value, 2) = 1
    /\ CarriedCount(text_chunks.value, 3) = 2
    /\ Len(text_chunks.value[3]) > 2


----------------------------------------------------------------------------
(* Properties of the sections extract_mda_sections returns *)

\* The places in LinesRead of the lines the length test keeps.
KeptPlaces == {i \in 1..Len(LinesRead) : Len(Trimmed[LinesRead[i].line]) > KEPT_LONGER_THAN}

\* The entries of the kept lines that found section as the current one, in
\* document order.
RECURSIVE EntriesUpTo(_, _)
EntriesUpTo(section, n) ==
    IF n = 0 THEN <<>>
    ELSE EntriesUpTo(section, n - 1)
         \o (IF n \in KeptPlaces /\ PointerAfter(n) = section
             THEN <<EntryOf(LinesRead[n])>> ELSE <<>>)

RECURSIVE TotalEntries(_)
TotalEntries(returned) ==
    IF returned = <<>> THEN 0
    ELSE Len(returned[1].entries) + TotalEntries(Tail(returned))

\* C30: extract_mda_sections assigns every kept line to exactly one section:
\* the entries of all returned sections are as many as the kept lines of the
\* document; the entries of a section are its kept lines in document order,
\* with page numbers that never decrease; a page without text leaves no
\* entry and leaves the current section as it was; no returned section is
\* without entries, and no section is returned twice.
C30_EveryKeptLineOnce ==
    /\ current_section = PointerAfter(Len(LinesRead))
    /\ \A s \in DOMAIN extracted : \A j \in 1..Len(extracted[s]) :
          pdf_pages[extracted[s][j].page].has_text
    /\ sections_out.done =>
          LET returned == sections_out.value IN
          /\ TotalEntries(returned) = Cardinality(KeptPlaces)
          /\ \A k \in 1..Len(returned) :
                /\ returned[k].entries # <<>>
                /\ returned[k].entries = EntriesUpTo(returned[k].section, Len(LinesRead))
                /\ \A i, j \in 1..Len(returned[k].entries) :
                      i < j => returned[k].entries[i].page <= returned[k].entries[j].page
                /\ \A m \in 1..Len(returned) : returned[m].section = returned[k].section => m = k

\* C30 witness: a page without text stands between two pages with text, a
\* heading too short to be kept made its section current, and the one
\* returned section holds an entry of the page before and an entry of the
\* page after the page without text.
C30_Witness ==
    /\ sections_out.done
    /\ Len(pdf_pages) = 3
    /\ pdf_pages[2] = NoTextPage
    /\ Len(LinesRead) > Cardinality(KeptPlaces)
    /\ Len(sections_out.value) = 1
    /\ sections_out.value[1].section = SEC_RISK
    /\ Len(sections_out.value[1].entries) = 2
    /\ sections_out.value[1].entries[1].page = 1
    /\ sections_out.value[1].entries[2].page = 3
=============================================================================
